---- MODULE Spec2Model ----
(***************************************************************************)
(* A model of python/agent_demo.py: the line-delimited JSON RPC client to  *)
(* the tool-server child process (ToolServerClient), the retry/backoff     *)
(* policy around the provider's network send (_request_with_retries and    *)
(* stream), and the conversation loop (run_agent).                         *)
(*                                                                         *)
(* Three specifications share the variables:                               *)
(*   SpecChannel   a caller issuing list_tools / call_tool requests        *)
(*   SpecProvider  one provider operation (unary or streaming) retrying    *)
(*   Spec          one run of run_agent, with its tool channel             *)
(* Each leaves the other components' variables at their initial values.    *)
(***************************************************************************)
EXTENDS Integers, Sequences, FiniteSets, TLC

VARIABLES
    \* ---- ToolServerClient and the child process it talks to
    next_id,        \* self._next_id
    req_id,         \* request(): the local req_id of the request in flight
    chan_pc,        \* "idle" | "reading": request() is blocked in readline()
    wire,           \* the request lines the child has received, in order
    reads,          \* number of stdout.readline() calls made so far
    child_alive,    \* the child process still runs (its pipes are open)
    last,           \* how the last finished request() ended
    calls,          \* number of request() calls started
    \* ---- one provider operation (_request_with_retries / stream)
    mode,           \* "unary" | "stream"
    op_pc,          \* "send" | "returned" | "raised"
    attempts,       \* the local counter attempts
    sends,          \* number of urlopen() calls made
    nsleeps,        \* number of time.sleep() calls made
    delay,          \* the last time.sleep() call: after which attempt, how long
    prev_delay,     \* the time.sleep() call before that one
    failure,        \* the failure observed by the last send
    op_error,       \* the exception the operation raised to its caller
    only429,        \* every send so far was answered with HTTP 429
    \* ---- run_agent
    pc,             \* "list_tools" | "provider" | "provider_wait" | "dispatch" | "done"
    max_steps,      \* the step budget
    step_index,     \* the for loop's step_index
    messages,       \* the history
    total_usage,    \* the accumulated TokenUsage
    response,       \* the ProviderResponse of the current step
    call_i,         \* index of the tool call being dispatched
    outcome,        \* "Running" | "Success" | "BudgetExceeded" | "Aborted" | "Raised"
    exit_code,      \* run_agent's return value (-1: none)
    printed,        \* what was printed on standard output
    provider_calls, \* number of provider.request()/stream() calls made
    sent,           \* the "messages" member of the payload of each of them, in order
    provider_error, \* the exception the last provider call raised
    turns,          \* the responses the provider returned, in order
    dispatched,     \* the tool calls handed to client.call_tool, in order
    tool_results,   \* how each finished client.call_tool ended, in order
    escaped,        \* the class of the exception that left run_agent ("none": none)
    reported,       \* the "Token usage" lines printed on standard error
    \* ---- main
    main_pc,        \* "config" | "run_agent" | "finally" | "exited" ("none": not run)
    main_ret,       \* main's return value (-1: none, or an exception leaves main)
    provider_ok,    \* the configured provider is one of PROVIDER_DEFAULTS
    \* ---- _parse_stream
    dec_pc,         \* "reading" | "done" | "raised" ("idle": not run)
    dec,            \* the locals: events, content, finish_reason, usage,
                    \* tool_calls_by_index (slots)
    fed,            \* the lines resp.readline() has returned, in order
    logical,        \* the completion the provider is streaming
    togo,           \* what of it has not been sent yet
    \* ---- normalize_arguments, at the dispatch of one tool call
    arg_in,         \* call.get("arguments", "{}")
    arg_pc,         \* "start" | "called" | "replied" ("idle": not run)
    arg_obj,        \* args_obj, as handed to client.call_tool
    \* ---- response_from_events, on a captured event sequence
    captured,       \* the events argument
    fold_pc,        \* "capturing" | "folded" ("idle": not run)
    folded          \* the ProviderResponse returned

chan_vars == <<next_id, req_id, chan_pc, wire, reads, child_alive, last, calls>>
prov_vars == <<mode, op_pc, attempts, sends, nsleeps, delay, prev_delay,
              failure, op_error, only429>>
agent_vars == <<pc, max_steps, step_index, messages, total_usage, response,
                call_i, outcome, exit_code, printed, provider_calls, sent,
                provider_error, turns, dispatched, tool_results, escaped,
                reported>>
main_vars == <<main_pc, main_ret, provider_ok>>
\* the components that the channel, the provider client and the loop leave alone
dec_vars == <<dec_pc, dec, fed, logical, togo>>
arg_vars == <<arg_in, arg_pc, arg_obj>>
fold_vars == <<captured, fold_pc, folded>>
pure_vars == <<dec_vars, arg_vars, fold_vars>>
other_vars == <<main_vars, pure_vars>>
vars == <<chan_vars, prov_vars, agent_vars, other_vars>>

(***************************************************************************)
(* Bounds of the model.                                                    *)
(***************************************************************************)
MaxRequests == 3
MaxSteps == 2
MaxLines == 4
MaxArgLen == 3
MaxEvents == 3

(***************************************************************************)
(* JSON values of the "id" member.  A JSON string and a JSON number with   *)
(* the same digits are different Python values ("1" != 1).                 *)
(***************************************************************************)
JStr(s) == [kind |-> "str", s |-> s]
JInt(n) == [kind |-> "int", s |-> ToString(n)]
JNone == [kind |-> "none", s |-> "None"]

\* str(self._next_id)
StrOfId(n) == JStr(ToString(n))

\* the text an f-string shows for a value of the "id" member
Shown(v) == v.s

(***************************************************************************)
(* What stdout.readline() can hand back: end of stream, a line that is not *)
(* JSON, or a reply object.  A reply's err is the error message ("" for no *)
(* error member); has_result says whether "result" is present and not      *)
(* null.  Lines the child wrote before it exited stay readable.            *)
(***************************************************************************)
Eof == [kind |-> "eof", id |-> JNone, err |-> "", has_result |-> FALSE, content |-> ""]
Garbage == [kind |-> "garbage", id |-> JNone, err |-> "", has_result |-> FALSE, content |-> ""]
ReplyLine(id, err, has, c) ==
    [kind |-> "reply", id |-> id, err |-> err, has_result |-> has, content |-> c]

\* the ids a reply to request number n can carry
ReplyIds(n) ==
    {StrOfId(n), JInt(n), JNone} \cup (IF n > 1 THEN {StrOfId(n - 1)} ELSE {StrOfId(n + 1)})

Lines(n) ==
    {Eof, Garbage}
    \cup {ReplyLine(id, "", TRUE, "out") : id \in ReplyIds(n)}
    \cup {ReplyLine(id, "boom", FALSE, "") : id \in ReplyIds(n)}
    \cup {ReplyLine(StrOfId(n), "", FALSE, "")}

(***************************************************************************)
(* ToolServerClient.request, from the readline() on: how the call ends for *)
(* the line read.                                                          *)
(***************************************************************************)
Returned(line) ==
    [kind |-> "return", err |-> "", text |-> "",
     has_result |-> line.has_result, content |-> line.content]
Raised(err, text) ==
    [kind |-> "raise", err |-> err, text |-> text, has_result |-> FALSE, content |-> ""]
NoOutcome == [kind |-> "none", err |-> "", text |-> "", has_result |-> FALSE, content |-> ""]

MismatchText(rid, got) ==
    "mismatched response id: expected " \o Shown(rid) \o ", got " \o Shown(got)

\* faulty variant: the reply's id is not compared with req_id
RequestOutcome_NoIdCheck(rid, line) ==
    IF line.kind = "eof" THEN Raised("ChannelClosed", "toolserver exited")
    ELSE IF line.kind = "garbage" THEN Raised("JSONDecodeError", "Expecting value")
    ELSE IF line.err # "" THEN Raised("RemoteToolError", line.err)
    ELSE Returned(line)

RequestOutcome(rid, line) ==
    IF line.kind = "eof" THEN Raised("ChannelClosed", "toolserver exited")
    ELSE IF line.kind = "garbage" THEN Raised("JSONDecodeError", "Expecting value")
    ELSE IF line.id # rid THEN Raised("ProtocolViolation", MismatchText(rid, line.id))
    ELSE IF line.err # "" THEN Raised("RemoteToolError", line.err)
    ELSE Returned(line)

\* faulty variant: the id is not advanced
NextIdAfter_Reuse(n) == n
\* self._next_id += 1
NextIdAfter(n) == n + 1

(***************************************************************************)
(* request(), first half: take an id, write and flush the request line.    *)
(* The flush fails (BrokenPipeError) only when the child is gone; the id   *)
(* is consumed either way.                                                 *)
(***************************************************************************)
ClientWrite(method) ==
    /\ chan_pc = "idle"
    /\ child_alive
    /\ req_id' = StrOfId(next_id)
    /\ next_id' = NextIdAfter(next_id)
    /\ calls' = calls + 1
    /\ wire' = Append(wire, [id |-> StrOfId(next_id), method |-> method])
    /\ chan_pc' = "reading"
    /\ UNCHANGED <<reads, child_alive, last>>

ClientWriteFails(method) ==
    /\ chan_pc = "idle"
    /\ ~child_alive
    /\ req_id' = StrOfId(next_id)
    /\ next_id' = NextIdAfter(next_id)
    /\ calls' = calls + 1
    /\ last' = [req |-> StrOfId(next_id), line |-> Eof,
                out |-> Raised("BrokenPipe", "Broken pipe")]
    /\ UNCHANGED <<wire, chan_pc, reads, child_alive>>

(***************************************************************************)
(* request(), second half: one readline(), then the tests on the line.     *)
(***************************************************************************)
ClientRead(line) ==
    /\ chan_pc = "reading"
    /\ reads' = reads + 1
    /\ last' = [req |-> req_id, line |-> line, out |-> RequestOutcome(req_id, line)]
    /\ chan_pc' = "idle"
    /\ UNCHANGED <<next_id, req_id, wire, child_alive, calls>>

\* the child process exits by itself
ChildExits ==
    /\ child_alive
    /\ child_alive' = FALSE
    /\ UNCHANGED <<next_id, req_id, chan_pc, wire, reads, last, calls>>



(***************************************************************************)
(* The provider's network send and its retry policy.                       *)
(*                                                                         *)
(* A header value is a sequence of characters, or absent.  The values are  *)
(* ASCII text.                                                             *)
(***************************************************************************)
NoHeader == [present |-> FALSE, text |-> <<>>]
Header(t) == [present |-> TRUE, text |-> t]

Digits == {"0", "1", "2", "3", "4", "5", "6", "7", "8", "9"}

DigitVal(c) ==
    CASE c = "0" -> 0 [] c = "1" -> 1 [] c = "2" -> 2 [] c = "3" -> 3
      [] c = "4" -> 4 [] c = "5" -> 5 [] c = "6" -> 6 [] c = "7" -> 7
      [] c = "8" -> 8 [] c = "9" -> 9

\* str.isdigit(): non-empty and every character a digit
IsDigit(t) == Len(t) > 0 /\ \A i \in 1..Len(t) : t[i] \in Digits

\* int(t) of a digit string
RECURSIVE IntOf(_)
IntOf(t) ==
    IF Len(t) = 0 THEN 0
    ELSE IntOf(SubSeq(t, 1, Len(t) - 1)) * 10 + DigitVal(t[Len(t)])

RECURSIVE Pow2(_)
Pow2(n) == IF n <= 0 THEN 1 ELSE 2 * Pow2(n - 1)

\* the ceiling on attempts
MaxAttempts == 8
\* the first backoff, in milliseconds
BaseBackoffMs == 2000

\* faulty variants: attempts > 8, attempts >= 7
Exhausted_OffByOne(n) == n > MaxAttempts
Exhausted_AtSeven(n) == n >= MaxAttempts - 1
\* attempts >= 8
Exhausted(n) == n >= MaxAttempts

\* faulty variant: 503 retried as well
RetryableCodes_With503 == {429, 500, 503}
\* e.code not in {429, 500}
RetryableCodes == {429, 500}

\* backoff = 2000 * (2 ** (attempts - 1))
Backoff(n) == BaseBackoffMs * Pow2(n - 1)

\* int(backoff * random.uniform(0.0, 0.2)): any whole number of milliseconds
\* from 0 to a fifth of the backoff; the model takes both ends and the middle
\* (faulty variant: a jitter of up to half the backoff)
Jitters_Half(b) == {0, b \div 4, b \div 2}
Jitters(b) == {0, b \div 10, b \div 5}

\* faulty variant: Retry-After ignored
UsesRetryAfter_Never(h) == FALSE
\* retry_after and retry_after.isdigit()
UsesRetryAfter(h) == h.present /\ Len(h.text) > 0 /\ IsDigit(h.text)

\* the delays the HTTPError branch can sleep after failed attempt n
HttpSleeps(n, h) ==
    IF UsesRetryAfter(h)
    THEN {[n |-> n, ms |-> IntOf(h.text) * 1000, via |-> "retry_after"]}
    ELSE {[n |-> n, ms |-> Backoff(n) + j, via |-> "backoff"] : j \in Jitters(Backoff(n))}

\* the delays the URLError branch can sleep after failed attempt n
UrlSleeps(n) ==
    {[n |-> n, ms |-> Backoff(n) + j, via |-> "backoff"] : j \in Jitters(Backoff(n))}

NoDelay == [n |-> 0, ms |-> 0, via |-> "none"]

(***************************************************************************)
(* What one urlopen() plus the reading of its body can come to.            *)
(***************************************************************************)
Ok(body) == [kind |-> "ok", code |-> 200, retry_after |-> NoHeader, body |-> body]
HttpError(code, h) == [kind |-> "http", code |-> code, retry_after |-> h, body |-> "error body"]
UrlError == [kind |-> "url", code |-> 0, retry_after |-> NoHeader, body |-> ""]
NoFailure == [kind |-> "none", code |-> 0, retry_after |-> NoHeader, body |-> ""]
DecodeError == [kind |-> "decode", code |-> 200, retry_after |-> NoHeader, body |-> "malformed"]

RetryAfterValues ==
    {NoHeader, Header(<<>>), Header(<<"0">>), Header(<<"3">>), Header(<<"1", "2">>),
     Header(<<"3", ".", "5">>), Header(<<"-", "1">>), Header(<<"s", "o", "o", "n">>)}

HttpCodes == {400, 401, 404, 429, 500, 503}

SendResults ==
    {Ok("json"), Ok("malformed"), UrlError}
    \cup {HttpError(c, h) : c \in HttpCodes, h \in RetryAfterValues}

(***************************************************************************)
(* One pass of the while loop of _request_with_retries (unary) for the     *)
(* send result r: the send, and what follows it up to the next send or     *)
(* the end of the operation.                                               *)
(***************************************************************************)
OpEnds(how, err) ==
    /\ op_pc' = how
    /\ op_error' = err
    /\ UNCHANGED <<nsleeps, delay, prev_delay>>

OpSleeps(delays) ==
    /\ \E d \in delays : delay' = d
    /\ prev_delay' = delay
    /\ nsleeps' = nsleeps + 1
    /\ op_pc' = "send"
    /\ op_error' = op_error

RetryPass(r) ==
    /\ op_pc = "send"
    /\ attempts' = attempts + 1
    /\ sends' = sends + 1
    /\ failure' = r
    /\ only429' = (only429 /\ r.kind = "http" /\ r.code = 429)
    /\ mode' = mode
    /\ CASE r.kind = "ok" ->
              IF mode = "unary" /\ r.body = "malformed"
              THEN OpEnds("raised", DecodeError)
              ELSE OpEnds("returned", NoFailure)
         [] r.kind = "http" ->
              IF r.code \notin RetryableCodes THEN OpEnds("raised", r)
              ELSE IF Exhausted(attempts + 1) THEN OpEnds("raised", r)
              ELSE OpSleeps(HttpSleeps(attempts + 1, r.retry_after))
         [] r.kind = "url" ->
              IF Exhausted(attempts + 1) THEN OpEnds("raised", r)
              ELSE OpSleeps(UrlSleeps(attempts + 1))

\* _request_with_retries
RequestWithRetries ==
    /\ mode = "unary"
    /\ \E r \in SendResults : RetryPass(r)
    /\ UNCHANGED <<other_vars, chan_vars, agent_vars>>

\* stream: the same loop around urlopen and _parse_stream
StreamWithRetries ==
    /\ mode = "stream"
    /\ \E r \in SendResults : RetryPass(r)
    /\ UNCHANGED <<other_vars, chan_vars, agent_vars>>

(***************************************************************************)
(* run_agent: the conversation loop.                                       *)
(***************************************************************************)
ZeroUsage == [input |-> 0, output |-> 0, total |-> 0]

\* (faulty variant: the last usage replaces the total)
UsageAdd_Overwrite(a, b) == b
\* TokenUsage.add
UsageAdd(a, b) ==
    [input |-> a.input + b.input,
     output |-> a.output + b.output,
     total |-> a.total + b.total]

Msg(role, content, tool_calls, tool_call_id, name) ==
    [role |-> role, content |-> content, tool_calls |-> tool_calls,
     tool_call_id |-> tool_call_id, name |-> name]

SystemMsg == Msg("system", "system prompt", <<>>, "", "")
UserMsg == Msg("user", "prompt", <<>>, "", "")

\* build_assistant_message
BuildAssistantMessage(resp) ==
    Msg("assistant", resp.content, resp.tool_calls, "", "")

\* (faulty variant: the message is tagged with the tool's name)
ToolMsg_TaggedByName(call, content) == Msg("tool", content, <<>>, call.name, call.name)
\* the tool-role message appended after a dispatch
ToolMsg(call, content) == Msg("tool", content, <<>>, call.id, call.name)

\* f"tool call failed: {e}"
ToolFailed(text) == "tool call failed: " \o text

\* result.get("content", "") of call_tool's result, or the failure text
ToolContent(out) ==
    IF out.kind = "raise" THEN ToolFailed(out.text)
    ELSE IF ~out.has_result
         THEN ToolFailed("'NoneType' object has no attribute 'get'")
         ELSE out.content

\* except Exception: every failure of call_tool is an Exception
ExceptionKinds ==
    {"ChannelClosed", "ProtocolViolation", "RemoteToolError", "JSONDecodeError",
     "BrokenPipe"}
\* (faulty variant: only the tool's own error is caught)
Caught_OnlyRemote(out) == out.kind = "raise" => out.err = "RemoteToolError"
Caught(out) == out.kind = "raise" => out.err \in ExceptionKinds

\* faulty variant: a response with text is taken as final
IsFinal_ByContent(resp) == resp.content # ""
\* if not response.tool_calls
IsFinal(resp) == resp.tool_calls = <<>>

\* faulty variant: one step more than the budget
InRange_OneMore(i, n) == 1 <= i /\ i <= n + 1
\* step_index in range(1, max_steps + 1)
InRange(i, n) == 1 <= i /\ i <= n

(***************************************************************************)
(* What a provider call can return to the loop: a response, or one of the  *)
(* exceptions provider.request / provider.stream raise.                    *)
(***************************************************************************)
CallA == [id |-> "call_a", name |-> "ls", arguments |-> "{}"]
CallB == [id |-> "call_b", name |-> "read", arguments |-> "not json"]

Usage1 == [input |-> 3, output |-> 2, total |-> 5]
Usage2 == [input |-> 7, output |-> 1, total |-> 8]

Resp(c, tcs, u) == [content |-> c, tool_calls |-> tcs, usage |-> u]

Responses ==
    {Resp("final answer", <<>>, Usage1),
     Resp("", <<>>, ZeroUsage),
     Resp("", <<CallA>>, Usage1),
     Resp("let me look", <<CallA>>, ZeroUsage),
     Resp("thinking", <<CallB, CallA>>, Usage2)}

NoResponse == Resp("", <<>>, ZeroUsage)

ProviderErrors == {"HTTPError", "Exception"}

\* the reply lines the run's child sends back to request number n
AgentLines(n) ==
    {Eof, Garbage,
     ReplyLine(StrOfId(n), "", TRUE, "out"),
     ReplyLine(StrOfId(n), "boom", FALSE, ""),
     ReplyLine(StrOfId(n), "", FALSE, ""),
     ReplyLine(IF n > 1 THEN StrOfId(n - 1) ELSE JInt(n), "", TRUE, "out")}

\* the class of the exception a failed request() or a missing result raises
ExceptionClass(out) ==
    IF out.kind # "raise" THEN "TypeError"
    ELSE IF out.err = "JSONDecodeError" THEN "JSONDecodeError"
    ELSE IF out.err = "BrokenPipe" THEN "BrokenPipeError"
    ELSE "RuntimeError"

\* if total_usage.total_tokens > 0: print("Token usage: ...", file=sys.stderr)
Report(log, u) == IF u.total > 0 THEN Append(log, u) ELSE log

\* (faulty variant: the loop goes on after the outcome is set)
Ends_LoopGoesOn(how, code) ==
    /\ pc' = "provider"
    /\ outcome' = how
    /\ exit_code' = code
\* return <code> / an exception leaving run_agent
Ends(how, code) ==
    /\ pc' = "done"
    /\ outcome' = how
    /\ exit_code' = code

\* the top of the for loop, for the step i that would come next
EnterStep(i) ==
    IF InRange(i, max_steps)
    THEN /\ step_index' = i
         /\ pc' = "provider"
         /\ UNCHANGED <<outcome, exit_code, reported>>
    ELSE /\ Ends("BudgetExceeded", 1)
         /\ reported' = Report(reported, total_usage)
         /\ UNCHANGED step_index

\* tools = client.list_tools(): the request is written
AgentListTools ==
    /\ main_pc = "run_agent"
    /\ pc = "list_tools"
    /\ ClientWrite("list_tools")
    /\ UNCHANGED <<other_vars, prov_vars, agent_vars>>

\* tools = client.list_tools(): the write fails, the exception leaves run_agent
AgentListToolsBrokenPipe ==
    /\ main_pc = "run_agent"
    /\ pc = "list_tools"
    /\ ClientWriteFails("list_tools")
    /\ Ends("Raised", -1)
    /\ escaped' = "BrokenPipeError"
    /\ UNCHANGED <<other_vars, prov_vars, max_steps, step_index, messages,
                   total_usage, response, call_i, printed, provider_calls, sent,
                   provider_error, turns, dispatched, tool_results, reported>>

\* tools = client.list_tools() returns or raises; the schema, the provider and
\* the history are built and the loop is entered
AgentToolsListed ==
    /\ pc = "list_tools"
    /\ \E line \in AgentLines(calls) :
          /\ ClientRead(line)
          /\ LET out == RequestOutcome(req_id, line) IN
             IF out.kind = "raise" \/ ~out.has_result
             THEN /\ Ends("Raised", -1)
                  /\ escaped' = ExceptionClass(out)
                  /\ UNCHANGED <<step_index, messages, total_usage, reported>>
             ELSE IF ~provider_ok
             THEN /\ Ends("Raised", -1)
                  /\ escaped' = "ValueError"
                  /\ UNCHANGED <<step_index, messages, total_usage, reported>>
             ELSE /\ messages' = <<SystemMsg, UserMsg>>
                  /\ total_usage' = ZeroUsage
                  /\ EnterStep(1)
                  /\ UNCHANGED escaped
    /\ UNCHANGED <<other_vars, prov_vars, max_steps, response, call_i, printed,
                   provider_calls, sent, provider_error, turns, dispatched,
                   tool_results>>

\* (faulty variant: only the latest two messages are sent)
ProviderInput_Window(msgs) ==
    IF Len(msgs) <= 2 THEN msgs ELSE SubSeq(msgs, Len(msgs) - 1, Len(msgs))
\* _build_payload: "messages": messages
ProviderInput(msgs) == msgs

\* provider.stream(messages, tool_schema) / provider.request(...) is called
AgentCallProvider ==
    /\ pc = "provider"
    /\ pc' = "provider_wait"
    /\ provider_calls' = provider_calls + 1
    /\ sent' = Append(sent, ProviderInput(messages))
    /\ UNCHANGED <<other_vars, chan_vars, prov_vars, max_steps, step_index,
                   messages, total_usage, response, call_i, outcome, exit_code,
                   printed, provider_error, turns, dispatched, tool_results,
                   escaped, reported>>

\* the provider call raises: "LLM request failed", return 1
AgentProviderRaises ==
    /\ pc = "provider_wait"
    /\ \E e \in ProviderErrors : provider_error' = e
    /\ Ends("Aborted", 1)
    /\ UNCHANGED <<other_vars, chan_vars, prov_vars, max_steps, step_index,
                   messages, total_usage, response, call_i, printed,
                   provider_calls, sent, turns, dispatched, tool_results, escaped,
                   reported>>

\* the provider call returns: the assistant message is appended, the usage
\* added, and the run ends if the response asks for no tool
AgentProviderResponds ==
    /\ pc = "provider_wait"
    /\ \E resp \in Responses :
          /\ turns' = Append(turns, resp)
          /\ response' = resp
          /\ messages' = Append(messages, BuildAssistantMessage(resp))
          /\ total_usage' = UsageAdd(total_usage, resp.usage)
          /\ IF IsFinal(resp)
             THEN /\ printed' = IF resp.content # ""
                                THEN Append(printed, resp.content)
                                ELSE printed
                  /\ reported' = Report(reported, UsageAdd(total_usage, resp.usage))
                  /\ Ends("Success", 0)
                  /\ UNCHANGED call_i
             ELSE /\ pc' = "dispatch"
                  /\ call_i' = 1
                  /\ UNCHANGED <<printed, outcome, exit_code, reported>>
    /\ UNCHANGED <<other_vars, chan_vars, prov_vars, max_steps, step_index,
                   provider_calls, sent, provider_error, dispatched, tool_results,
                   escaped>>

\* (faulty variant: a call that failed is dispatched again)
AfterCallTool_Retry(out) ==
    LET call == response.tool_calls[call_i] IN
    /\ tool_results' = Append(tool_results, [call |-> call, out |-> out])
    /\ IF out.kind = "raise"
       THEN UNCHANGED <<messages, call_i, pc, step_index, outcome, exit_code,
                        reported>>
       ELSE /\ messages' = Append(messages, ToolMsg(call, ToolContent(out)))
            /\ IF call_i < Len(response.tool_calls)
               THEN /\ call_i' = call_i + 1
                    /\ UNCHANGED <<pc, step_index, outcome, exit_code, reported>>
               ELSE /\ EnterStep(step_index + 1)
                    /\ UNCHANGED call_i
    /\ UNCHANGED escaped
\* the rest of one pass of "for call in response.tool_calls", once call_tool
\* has ended as out
AfterCallTool(out) ==
    LET call == response.tool_calls[call_i] IN
    /\ tool_results' = Append(tool_results, [call |-> call, out |-> out])
    /\ IF Caught(out)
       THEN /\ messages' = Append(messages, ToolMsg(call, ToolContent(out)))
            /\ IF call_i < Len(response.tool_calls)
               THEN /\ call_i' = call_i + 1
                    /\ UNCHANGED <<pc, step_index, outcome, exit_code, reported>>
               ELSE /\ EnterStep(step_index + 1)
                    /\ UNCHANGED call_i
            /\ UNCHANGED escaped
       ELSE /\ Ends("Raised", -1)
            /\ escaped' = ExceptionClass(out)
            /\ UNCHANGED <<messages, call_i, step_index, reported>>

\* client.call_tool(name, args_obj): the request is written
AgentDispatch ==
    /\ pc = "dispatch"
    /\ ClientWrite("call_tool")
    /\ dispatched' = Append(dispatched, response.tool_calls[call_i])
    /\ UNCHANGED <<other_vars, prov_vars, pc, max_steps, step_index, messages,
                   total_usage, response, call_i, outcome, exit_code, printed,
                   provider_calls, sent, provider_error, turns, tool_results, escaped,
                   reported>>

\* client.call_tool(name, args_obj): the write fails
AgentDispatchBrokenPipe ==
    /\ pc = "dispatch"
    /\ ClientWriteFails("call_tool")
    /\ dispatched' = Append(dispatched, response.tool_calls[call_i])
    /\ AfterCallTool(Raised("BrokenPipe", "[Errno 32] Broken pipe"))
    /\ UNCHANGED <<other_vars, prov_vars, max_steps, total_usage, response,
                   printed, provider_calls, sent, provider_error, turns>>

\* client.call_tool(name, args_obj) returns or raises
AgentToolReplied ==
    /\ pc = "dispatch"
    /\ \E line \in AgentLines(calls) :
          /\ ClientRead(line)
          /\ AfterCallTool(RequestOutcome(req_id, line))
    /\ UNCHANGED <<other_vars, prov_vars, max_steps, total_usage, response,
                   printed, provider_calls, sent, provider_error, turns, dispatched>>

\* the child process exits during the run
AgentChildExits ==
    /\ pc # "done"
    /\ ChildExits
    /\ UNCHANGED <<other_vars, prov_vars, agent_vars>>

(***************************************************************************)
(* main(), from the point where the child process has been started and the *)
(* client built: the configuration is read inside "try", run_agent is      *)
(* called, and "finally" kills the child.                                  *)
(***************************************************************************)
\* what the environment holds: an api key or none, a known provider or not
MainConfigs ==
    {[api_key |-> FALSE, provider |-> TRUE],
     [api_key |-> TRUE, provider |-> TRUE],
     [api_key |-> TRUE, provider |-> FALSE]}

\* except ValueError (json.JSONDecodeError is a ValueError)
IsValueError(cls) == cls \in {"ValueError", "JSONDecodeError"}

\* (faulty variant: the child is left as it is)
Killed_NotSent(alive) == alive
\* proc.kill(): whether the child still runs afterwards
Killed(alive) == FALSE

\* the api key is looked up: "return 2" without it, run_agent(...) with it
MainConfig ==
    /\ main_pc = "config"
    /\ \E cfg \in MainConfigs :
          IF ~cfg.api_key
          THEN /\ main_ret' = 2
               /\ main_pc' = "finally"
               /\ UNCHANGED provider_ok
          ELSE /\ main_pc' = "run_agent"
               /\ provider_ok' = cfg.provider
               /\ UNCHANGED main_ret
    /\ UNCHANGED <<chan_vars, prov_vars, agent_vars, pure_vars>>

\* run_agent returns, or raises: a ValueError is caught ("return 2"), any
\* other exception leaves main
MainRunAgentEnds ==
    /\ main_pc = "run_agent"
    /\ pc = "done"
    /\ main_ret' = IF outcome # "Raised" THEN exit_code
                   ELSE IF IsValueError(escaped) THEN 2
                   ELSE -1
    /\ main_pc' = "finally"
    /\ UNCHANGED <<chan_vars, prov_vars, agent_vars, provider_ok, pure_vars>>

\* finally: proc.kill()
MainFinally ==
    /\ main_pc = "finally"
    /\ child_alive' = Killed(child_alive)
    /\ main_pc' = "exited"
    /\ UNCHANGED <<next_id, req_id, chan_pc, wire, reads, last, calls>>
    /\ UNCHANGED <<prov_vars, agent_vars, main_ret, provider_ok, pure_vars>>

(***************************************************************************)
(* JSON values as the provider sends them. A string field that is absent   *)
(* (or null) is Missing, a number that is absent (or null) is Absent.      *)
(***************************************************************************)
Missing == "<missing>"
Absent == -1

\* dict.get(key, default)
Get(v, default) == IF v = Missing THEN default ELSE v

\* the truth value Python gives a string or None
Truthy(v) == v # Missing /\ v # ""

\* int(x or 0)
IntOr0(x) == IF x = Absent THEN 0 ELSE x

\* a "usage" member: present (a dict) or not, with its three counters
RawUsage(p, c, t) ==
    [present |-> TRUE, prompt_tokens |-> p, completion_tokens |-> c,
     total_tokens |-> t]
NoRawUsage ==
    [present |-> FALSE, prompt_tokens |-> Absent, completion_tokens |-> Absent,
     total_tokens |-> Absent]

\* TokenUsage(int(prompt_tokens or 0), int(completion_tokens or 0),
\*            int(total_tokens or 0))
TokenUsageOf(u) ==
    [input |-> IntOr0(u.prompt_tokens),
     output |-> IntOr0(u.completion_tokens),
     total |-> IntOr0(u.total_tokens)]

\* extract_token_usage
ExtractTokenUsage(result) ==
    IF ~result.usage.present THEN ZeroUsage ELSE TokenUsageOf(result.usage)

(***************************************************************************)
(* The unary parse: request() and _parse_tool_calls.                       *)
(***************************************************************************)
\* one entry of message["tool_calls"]
RawCall(id, name, arguments) == [id |-> id, name |-> name, arguments |-> arguments]

ToolCall(id, name, arguments) == [id |-> id, name |-> name, arguments |-> arguments]

\* (faulty variant: an empty argument string is replaced by "{}" too)
ParseToolCall_OrDefault(call) ==
    ToolCall(Get(call.id, ""), Get(call.name, ""),
             IF Truthy(call.arguments) THEN call.arguments ELSE "{}")
\* _parse_tool_calls, for one raw call
ParseToolCall(call) ==
    ToolCall(Get(call.id, ""), Get(call.name, ""), Get(call.arguments, "{}"))

\* _parse_tool_calls
ParseToolCalls(raw_calls) == [i \in DOMAIN raw_calls |-> ParseToolCall(raw_calls[i])]

\* ProviderResponse: the message's content, the tool calls, the finish reason
\* kept as raw, the usage
ProviderResponse(content, tool_calls, finish_reason, usage) ==
    [content |-> content, tool_calls |-> tool_calls,
     finish_reason |-> finish_reason, usage |-> usage]

\* request(), once the body is decoded: result["choices"][0]["message"]
ParseUnary(result) ==
    LET assistant_msg == result.choices[1].message IN
    ProviderResponse(assistant_msg.content, ParseToolCalls(assistant_msg.tool_calls),
                     result.choices[1].finish_reason, ExtractTokenUsage(result))

(***************************************************************************)
(* The stream decoder: _parse_stream.                                      *)
(***************************************************************************)
NoCall == ToolCall(Missing, Missing, Missing)
NoStreamResponse == ProviderResponse(Missing, <<>>, Missing, ZeroUsage)

\* ProviderEvent
ProviderEvent(type, content, tool_call, resp) ==
    [type |-> type, content |-> content, tool_call |-> tool_call, response |-> resp]
ContentEvent(text) == ProviderEvent("content_delta", text, NoCall, NoStreamResponse)
ToolEvent(type, call) == ProviderEvent(type, "", call, NoStreamResponse)
CompleteEvent(resp) == ProviderEvent("complete", "", NoCall, resp)

\* one entry of delta["tool_calls"]
Fragment(index, id, name, arguments) ==
    [index |-> index, id |-> id, name |-> name, arguments |-> arguments]

\* one entry of chunk["choices"]
Choice(content, tool_calls, finish_reason) ==
    [content |-> content, tool_calls |-> tool_calls, finish_reason |-> finish_reason]

Chunk(usage, choices) == [usage |-> usage, choices |-> choices]

\* the locals of _parse_stream before the first line
DecoderStart ==
    [events |-> <<>>, content |-> "", finish_reason |-> "", usage |-> ZeroUsage,
     slots |-> <<>>]

\* (faulty variant: every fragment goes to slot 0)
SlotOf_First(tc) == 0
\* tc.get("index", 0)
SlotOf(tc) == IF tc.index = Absent THEN 0 ELSE tc.index

\* tool_calls_by_index.get(idx, {"id": "", "name": "", "arguments": ""})
CurrentCall(d, idx) ==
    IF idx \in DOMAIN d.slots THEN d.slots[idx] ELSE ToolCall("", "", "")

\* the body of "for tc in delta.get('tool_calls') or []"
ApplyFragment(d, tc) ==
    LET idx == SlotOf(tc)
        c0 == CurrentCall(d, idx)
        set_id == Truthy(tc.id) /\ ~Truthy(c0.id)
        c1 == IF set_id THEN [c0 EXCEPT !.id = tc.id] ELSE c0
        e1 == IF set_id THEN <<ToolEvent("tool_use_start", c1)>> ELSE <<>>
        set_name == Truthy(tc.name) /\ c1.name # tc.name
        c2 == IF set_name THEN [c1 EXCEPT !.name = tc.name] ELSE c1
        e2 == IF set_name THEN <<ToolEvent("tool_use_start", c2)>> ELSE <<>>
        add_args == Truthy(tc.arguments)
        c3 == IF add_args THEN [c2 EXCEPT !.arguments = @ \o tc.arguments] ELSE c2
        e3 == IF add_args THEN <<ToolEvent("tool_use_delta", c3)>> ELSE <<>>
    IN [d EXCEPT !.events = @ \o e1 \o e2 \o e3,
                 !.slots = (idx :> c3) @@ d.slots]

RECURSIVE ApplyFragments(_, _)
ApplyFragments(d, tcs) ==
    IF tcs = <<>> THEN d
    ELSE ApplyFragments(ApplyFragment(d, Head(tcs)), Tail(tcs))

\* the body of "for choice in chunk.get('choices') or []"
ApplyChoice(d, choice) ==
    LET d1 == IF Truthy(choice.content)
              THEN [d EXCEPT !.events = Append(@, ContentEvent(choice.content)),
                             !.content = @ \o choice.content]
              ELSE d
        d2 == ApplyFragments(d1, choice.tool_calls)
    IN IF Truthy(choice.finish_reason)
       THEN [d2 EXCEPT !.finish_reason = choice.finish_reason]
       ELSE d2

RECURSIVE ApplyChoices(_, _)
ApplyChoices(d, choices) ==
    IF choices = <<>> THEN d
    ELSE ApplyChoices(ApplyChoice(d, Head(choices)), Tail(choices))

\* one decoded chunk: the usage is added, the choices applied
ApplyChunk(d, chunk) ==
    LET d1 == IF chunk.usage.present
              THEN [d EXCEPT !.usage = UsageAdd(@, TokenUsageOf(chunk.usage))]
              ELSE d
    IN ApplyChoices(d1, chunk.choices)

\* sorted(tool_calls_by_index.keys())
RECURSIVE Sorted(_)
Sorted(S) ==
    IF S = {} THEN <<>>
    ELSE LET m == CHOOSE x \in S : \A y \in S : x <= y
         IN <<m>> \o Sorted(S \ {m})

\* (faulty variant: no id is made up)
FinalCall_AsReceived(d, idx) == d.slots[idx]
\* if not tc.get("id"): tc["id"] = f"call_{idx}"
FinalCall(d, idx) ==
    LET tc == d.slots[idx] IN
    IF ~Truthy(tc.id) THEN [tc EXCEPT !.id = "call_" \o ToString(idx)] ELSE tc

\* (faulty variant: the complete event is appended before the stop events)
Finalize_CompleteFirst(d) ==
    LET keys == Sorted(DOMAIN d.slots)
        tool_calls == [i \in 1..Len(keys) |-> FinalCall(d, keys[i])]
        stops == [i \in 1..Len(keys) |-> ToolEvent("tool_use_stop", tool_calls[i])]
        resp == ProviderResponse(d.content, tool_calls, d.finish_reason, d.usage)
    IN [d EXCEPT !.events = @ \o <<CompleteEvent(resp)>> \o stops]
\* the tail of _parse_stream, after the read loop
Finalize(d) ==
    LET keys == Sorted(DOMAIN d.slots)
        tool_calls == [i \in 1..Len(keys) |-> FinalCall(d, keys[i])]
        stops == [i \in 1..Len(keys) |-> ToolEvent("tool_use_stop", tool_calls[i])]
        resp == ProviderResponse(d.content, tool_calls, d.finish_reason, d.usage)
    IN [d EXCEPT !.events = @ \o stops \o <<CompleteEvent(resp)>>]

\* the lines resp.readline() can return
EofLine == [kind |-> "eof", chunk |-> Chunk(NoRawUsage, <<>>)]
DoneLine == [kind |-> "done", chunk |-> Chunk(NoRawUsage, <<>>)]
BlankLine == [kind |-> "blank", chunk |-> Chunk(NoRawUsage, <<>>)]
CommentLine == [kind |-> "other", chunk |-> Chunk(NoRawUsage, <<>>)]
BadJsonLine == [kind |-> "badjson", chunk |-> Chunk(NoRawUsage, <<>>)]
NotADictLine == [kind |-> "nondict", chunk |-> Chunk(NoRawUsage, <<>>)]
DataLine(chunk) == [kind |-> "data", chunk |-> chunk]

\* "if not line: break" and 'if data == b"[DONE]": break'
LineEnds(line) == line.kind \in {"eof", "done"}

\* the three "continue": a blank line, a line without "data:", a payload
\* json.loads rejects
LineSkipped(line) == line.kind \in {"blank", "other", "badjson"}

\* one pass of the read loop on the line read, the tail of the function
\* when the loop is left
ParseStreamLine(line) ==
    /\ dec_pc = "reading"
    /\ fed' = Append(fed, line)
    /\ IF LineEnds(line)
       THEN dec' = Finalize(dec) /\ dec_pc' = "done"
       ELSE IF LineSkipped(line)
       THEN UNCHANGED <<dec, dec_pc>>
       ELSE IF line.kind = "nondict"
       THEN dec_pc' = "raised" /\ UNCHANGED dec
       ELSE dec' = ApplyChunk(dec, line.chunk) /\ UNCHANGED dec_pc

\* a completion as the provider holds it before encoding it: the text and
\* each call's argument string as the pieces a stream may send one by one
Completion(content, tool_calls, usage) ==
    [content |-> content, tool_calls |-> tool_calls, usage |-> usage]
NoCompletion == Completion(<<>>, <<>>, NoRawUsage)
NothingToGo == [content |-> <<>>, calls |-> <<>>, usage |-> FALSE]

\* the pieces of a text, joined
RECURSIVE Join(_)
Join(pieces) == IF pieces = <<>> THEN "" ELSE Head(pieces) \o Join(Tail(pieces))

\* the body of the unary reply for a completion: one choice, whose message
\* holds the whole text and the whole calls, and the usage member
EncodeUnary(c) ==
    [choices |->
        <<[message |->
              [content |-> Join(c.content),
               tool_calls |->
                  [i \in DOMAIN c.tool_calls |->
                      RawCall(c.tool_calls[i].id, c.tool_calls[i].name,
                              Join(c.tool_calls[i].arguments))]],
           finish_reason |-> "stop"]>>,
     usage |-> c.usage]

\* what is to be sent of a completion when its stream starts
AllToGo(c) ==
    [content |-> c.content,
     calls |-> [i \in DOMAIN c.tool_calls |->
                  [id |-> TRUE, name |-> TRUE,
                   arguments |-> c.tool_calls[i].arguments]],
     usage |-> c.usage.present]

\* response_from_events, for one event
FoldEvent(acc, event) ==
    LET a1 == IF event.type = "content_delta"
              THEN [acc EXCEPT !.content = @ \o event.content]
              ELSE acc
    IN IF event.type \in {"tool_use_start", "tool_use_delta", "tool_use_stop"}
          /\ event.tool_call # NoCall
       THEN IF ~Truthy(event.tool_call.id) THEN a1
            ELSE LET tc == event.tool_call
                     at == {i \in DOMAIN a1.calls : a1.calls[i].id = tc.id}
                     c0 == IF at = {} THEN ToolCall(tc.id, "", "")
                           ELSE a1.calls[CHOOSE i \in at : TRUE]
                     c1 == IF Truthy(tc.name) THEN [c0 EXCEPT !.name = tc.name] ELSE c0
                     c2 == IF Truthy(tc.arguments)
                           THEN [c1 EXCEPT !.arguments = tc.arguments] ELSE c1
                 IN [a1 EXCEPT !.calls =
                        IF at = {} THEN Append(@, c2)
                        ELSE [@ EXCEPT ![CHOOSE i \in at : TRUE] = c2]]
       ELSE IF event.type = "complete" /\ event.response # NoStreamResponse
       THEN [a1 EXCEPT !.response = event.response, !.usage = event.response.usage]
       ELSE a1

RECURSIVE FoldEvents(_, _)
FoldEvents(acc, events) ==
    IF events = <<>> THEN acc
    ELSE FoldEvents(FoldEvent(acc, Head(events)), Tail(events))

\* (faulty variant: the complete event is not looked at)
ResponseFromEvents_FoldOnly(events) ==
    LET acc == FoldEvents([response |-> NoStreamResponse, content |-> "",
                           calls |-> <<>>, usage |-> ZeroUsage],
                          SelectSeq(events, LAMBDA e : e.type # "complete"))
    IN ProviderResponse(acc.content, acc.calls, Missing, acc.usage)
\* response_from_events
ResponseFromEvents(events) ==
    LET acc == FoldEvents([response |-> NoStreamResponse, content |-> "",
                           calls |-> <<>>, usage |-> ZeroUsage], events)
    IN IF acc.response # NoStreamResponse THEN acc.response
       ELSE ProviderResponse(acc.content, acc.calls, Missing, acc.usage)

(***************************************************************************)
(* normalize_arguments, and the part of json.loads it rests on. A text is  *)
(* a sequence of characters; the decoder covers objects, arrays, strings   *)
(* without escapes, integers, and true / false / null.                     *)
(***************************************************************************)
JNull == [kind |-> "null"]
JBool(b) == [kind |-> "bool", bool |-> b]
JNumber(n) == [kind |-> "number", num |-> n]
JString(t) == [kind |-> "string", text |-> t]
JArray(elems) == [kind |-> "array", elems |-> elems]
JObject(members) == [kind |-> "object", members |-> members]
EmptyObject == JObject(<<>>)

\* the result of scanning one value: it failed, or the value and the index
\* after it
ScanFail == [ok |-> FALSE, val |-> JNull, pos |-> 0]
ScanOk(v, p) == [ok |-> TRUE, val |-> v, pos |-> p]

\* the character at index i, "" past the end
At(s, i) == IF i >= 1 /\ i <= Len(s) THEN s[i] ELSE ""

Whitespace == {" ", "\t", "\n", "\r"}

RECURSIVE SkipWs(_, _)
SkipWs(s, i) == IF At(s, i) \in Whitespace THEN SkipWs(s, i + 1) ELSE i

\* the index of the first '"' at or after i, 0 if there is none
RECURSIVE ClosingQuote(_, _)
ClosingQuote(s, i) ==
    IF i > Len(s) THEN 0
    ELSE IF s[i] = "\"" THEN i
    ELSE ClosingQuote(s, i + 1)

\* a string, s[i] being its opening quote
ScanString(s, i) ==
    LET j == ClosingQuote(s, i + 1) IN
    IF j = 0 THEN ScanFail
    ELSE ScanOk(JString(SubSeq(s, i + 1, j - 1)), j + 1)

\* the index after the run of digits that starts at i
RECURSIVE DigitsEnd(_, _)
DigitsEnd(s, i) == IF At(s, i) \in Digits THEN DigitsEnd(s, i + 1) ELSE i

\* an integer: "-"? ("0" | [1-9][0-9]*)
ScanNumber(s, i) ==
    LET neg == At(s, i) = "-"
        d == IF neg THEN i + 1 ELSE i
        e == IF At(s, d) = "0" THEN d + 1 ELSE DigitsEnd(s, d)
    IN IF e = d THEN ScanFail
       ELSE ScanOk(JNumber(IF neg THEN 0 - IntOf(SubSeq(s, d, e - 1))
                           ELSE IntOf(SubSeq(s, d, e - 1))), e)

\* whether the characters of word stand at index i
Stands(s, i, word) ==
    i + Len(word) - 1 <= Len(s) /\ SubSeq(s, i, i + Len(word) - 1) = word

RECURSIVE ScanValue(_, _)
RECURSIVE ScanMembers(_, _, _)
RECURSIVE ScanElements(_, _, _)

\* the members of an object, s[i] being the opening quote of the next key
ScanMembers(s, i, acc) ==
    IF At(s, i) # "\"" THEN ScanFail
    ELSE LET key == ScanString(s, i) IN
         IF ~key.ok THEN ScanFail
         ELSE LET colon == SkipWs(s, key.pos) IN
              IF At(s, colon) # ":" THEN ScanFail
              ELSE LET v == ScanValue(s, SkipWs(s, colon + 1)) IN
                   IF ~v.ok THEN ScanFail
                   ELSE LET more == (key.val.text :> v.val) @@ acc
                            next == SkipWs(s, v.pos)
                        IN IF At(s, next) = "}" THEN ScanOk(JObject(more), next + 1)
                           ELSE IF At(s, next) = ","
                           THEN ScanMembers(s, SkipWs(s, next + 1), more)
                           ELSE ScanFail

\* the elements of an array, s[i] being the start of the next one
ScanElements(s, i, acc) ==
    LET v == ScanValue(s, i) IN
    IF ~v.ok THEN ScanFail
    ELSE LET more == Append(acc, v.val)
             next == SkipWs(s, v.pos)
         IN IF At(s, next) = "]" THEN ScanOk(JArray(more), next + 1)
            ELSE IF At(s, next) = ","
            THEN ScanElements(s, SkipWs(s, next + 1), more)
            ELSE ScanFail

\* one value starting at index i
ScanValue(s, i) ==
    LET c == At(s, i) IN
    IF c = "{"
    THEN LET j == SkipWs(s, i + 1) IN
         IF At(s, j) = "}" THEN ScanOk(EmptyObject, j + 1)
         ELSE ScanMembers(s, j, <<>>)
    ELSE IF c = "["
    THEN LET j == SkipWs(s, i + 1) IN
         IF At(s, j) = "]" THEN ScanOk(JArray(<<>>), j + 1)
         ELSE ScanElements(s, j, <<>>)
    ELSE IF c = "\"" THEN ScanString(s, i)
    ELSE IF c = "-" \/ c \in Digits THEN ScanNumber(s, i)
    ELSE IF Stands(s, i, <<"n", "u", "l", "l">>) THEN ScanOk(JNull, i + 4)
    ELSE IF Stands(s, i, <<"t", "r", "u", "e">>) THEN ScanOk(JBool(TRUE), i + 4)
    ELSE IF Stands(s, i, <<"f", "a", "l", "s", "e">>) THEN ScanOk(JBool(FALSE), i + 5)
    ELSE ScanFail

\* json.loads: one value, white space around it, nothing after it
JsonLoads(s) ==
    LET v == ScanValue(s, SkipWs(s, 1)) IN
    IF ~v.ok THEN ScanFail
    ELSE IF SkipWs(s, v.pos) = Len(s) + 1 THEN v
    ELSE ScanFail

\* (faulty variant: whatever json.loads returns is passed on)
NormalizeArguments_AnyJson(arguments) ==
    IF arguments.kind = "object" THEN arguments
    ELSE IF arguments.kind # "string" THEN EmptyObject
    ELSE LET r == JsonLoads(arguments.text) IN
         IF r.ok THEN r.val ELSE EmptyObject
\* normalize_arguments
NormalizeArguments(arguments) ==
    IF arguments.kind = "object" THEN arguments
    ELSE IF arguments.kind # "string" THEN EmptyObject
    ELSE LET r == JsonLoads(arguments.text) IN
         IF r.ok /\ r.val.kind = "object" THEN r.val ELSE EmptyObject

(***************************************************************************)
(* Initial states and specifications.                                      *)
(***************************************************************************)
ChanInit ==
    /\ next_id = 1
    /\ req_id = JNone
    /\ chan_pc = "idle"
    /\ wire = <<>>
    /\ reads = 0
    /\ child_alive = TRUE
    /\ last = [req |-> JNone, line |-> Eof, out |-> NoOutcome]
    /\ calls = 0

ProvIdle ==
    /\ mode = "unary"
    /\ op_pc = "returned"
    /\ attempts = 0
    /\ sends = 0
    /\ nsleeps = 0
    /\ delay = NoDelay
    /\ prev_delay = NoDelay
    /\ failure = NoFailure
    /\ op_error = NoFailure
    /\ only429 = TRUE

AgentIdle ==
    /\ pc = "done"
    /\ max_steps = 0
    /\ step_index = 0
    /\ messages = <<>>
    /\ total_usage = ZeroUsage
    /\ response = NoResponse
    /\ call_i = 0
    /\ outcome = "Running"
    /\ exit_code = -1
    /\ printed = <<>>
    /\ provider_calls = 0
    /\ sent = <<>>
    /\ provider_error = "none"
    /\ turns = <<>>
    /\ dispatched = <<>>
    /\ tool_results = <<>>
    /\ escaped = "none"
    /\ reported = <<>>

AgentInit ==
    /\ pc = "list_tools"
    /\ max_steps \in 0..MaxSteps
    /\ step_index = 0
    /\ messages = <<>>
    /\ total_usage = ZeroUsage
    /\ response = NoResponse
    /\ call_i = 0
    /\ outcome = "Running"
    /\ exit_code = -1
    /\ printed = <<>>
    /\ provider_calls = 0
    /\ sent = <<>>
    /\ provider_error = "none"
    /\ turns = <<>>
    /\ dispatched = <<>>
    /\ tool_results = <<>>
    /\ escaped = "none"
    /\ reported = <<>>

MainIdle ==
    /\ main_pc = "none"
    /\ main_ret = -1
    /\ provider_ok = TRUE

MainInit ==
    /\ main_pc = "config"
    /\ main_ret = -1
    /\ provider_ok = TRUE

DecIdle ==
    /\ dec_pc = "idle"
    /\ dec = DecoderStart
    /\ fed = <<>>
    /\ logical = NoCompletion
    /\ togo = NothingToGo

ArgIdle ==
    /\ arg_in = <<>>
    /\ arg_pc = "idle"
    /\ arg_obj = <<>>

FoldIdle ==
    /\ captured = <<>>
    /\ fold_pc = "idle"
    /\ folded = NoStreamResponse

ProvInit ==
    /\ mode \in {"unary", "stream"}
    /\ op_pc = "send"
    /\ attempts = 0
    /\ sends = 0
    /\ nsleeps = 0
    /\ delay = NoDelay
    /\ prev_delay = NoDelay
    /\ failure = NoFailure
    /\ op_error = NoFailure
    /\ only429 = TRUE

InitProvider == ChanInit /\ ProvInit /\ AgentIdle /\ MainIdle /\ DecIdle /\ ArgIdle /\ FoldIdle
NextProvider == RequestWithRetries \/ StreamWithRetries
SpecProvider == InitProvider /\ [][NextProvider]_vars


(***************************************************************************)
(* SpecChannel: a caller that issues list_tools and call_tool requests one *)
(* after another, against a child that may answer anything.                *)
(***************************************************************************)
ChanCall ==
    /\ calls < MaxRequests
    /\ \E method \in {"list_tools", "call_tool"} : ClientWrite(method)
    /\ UNCHANGED <<other_vars, prov_vars, agent_vars>>

ChanCallFails ==
    /\ calls < MaxRequests
    /\ \E method \in {"list_tools", "call_tool"} : ClientWriteFails(method)
    /\ UNCHANGED <<other_vars, prov_vars, agent_vars>>

ChanReply ==
    /\ \E line \in Lines(calls) : ClientRead(line)
    /\ UNCHANGED <<other_vars, prov_vars, agent_vars>>

ChanChildExits ==
    /\ ChildExits
    /\ UNCHANGED <<other_vars, prov_vars, agent_vars>>

InitChannel == ChanInit /\ ProvIdle /\ AgentIdle /\ MainIdle /\ DecIdle /\ ArgIdle /\ FoldIdle
NextChannel == ChanCall \/ ChanCallFails \/ ChanReply \/ ChanChildExits
SpecChannel == InitChannel /\ [][NextChannel]_vars


(***************************************************************************)
(* Spec: one run of main, from the start of the child: run_agent over its  *)
(* tool channel, then the kill in "finally".                                *)
(***************************************************************************)
Init == ChanInit /\ ProvIdle /\ AgentInit /\ MainInit /\ DecIdle /\ ArgIdle /\ FoldIdle
Next ==
    \/ MainConfig
    \/ MainRunAgentEnds
    \/ MainFinally
    \/ AgentListTools
    \/ AgentListToolsBrokenPipe
    \/ AgentToolsListed
    \/ AgentCallProvider
    \/ AgentProviderRaises
    \/ AgentProviderResponds
    \/ AgentDispatch
    \/ AgentDispatchBrokenPipe
    \/ AgentToolReplied
    \/ AgentChildExits
Spec == Init /\ [][Next]_vars

\* the same run, in which a step that can be taken is taken: every blocking
\* call (readline, the provider call) returns or raises, and the interpreter
\* goes on to the next statement
SpecFair == Spec /\ WF_vars(Next)

(***************************************************************************)
(* SpecStream: _parse_stream reading a response body line by line, the     *)
(* body being any sequence of the lines of StreamLines.                    *)
(***************************************************************************)
ArgsA1 == "{\"p\":"
ArgsA2 == "1}"

\* the data lines and the skipped lines of the body
StreamLines ==
    {BlankLine, CommentLine, BadJsonLine, NotADictLine,
     DataLine(Chunk(NoRawUsage, <<Choice("Hel", <<>>, Missing)>>)),
     DataLine(Chunk(RawUsage(Absent, 4, Absent), <<Choice("lo", <<>>, "stop")>>)),
     DataLine(Chunk(RawUsage(3, 2, 5), <<>>)),
     DataLine(Chunk(NoRawUsage,
        <<Choice(Missing, <<Fragment(0, Missing, "ls", Missing)>>, Missing)>>)),
     DataLine(Chunk(NoRawUsage,
        <<Choice(Missing, <<Fragment(0, "id_x", Missing, Missing)>>, Missing)>>)),
     DataLine(Chunk(NoRawUsage,
        <<Choice(Missing, <<Fragment(Absent, Missing, Missing, ArgsA1)>>, Missing)>>)),
     DataLine(Chunk(NoRawUsage,
        <<Choice(Missing, <<Fragment(0, Missing, Missing, ArgsA2)>>, Missing)>>)),
     DataLine(Chunk(NoRawUsage,
        <<Choice("", <<Fragment(0, "id_z", "ls", "")>>, "")>>)),
     DataLine(Chunk(NoRawUsage,
        <<Choice(Missing, <<Fragment(1, Missing, "read", Missing)>>, Missing)>>)),
     DataLine(Chunk(NoRawUsage,
        <<Choice(Missing, <<Fragment(1, "id_x", "read", "{}")>>, "tool_calls")>>))}

\* resp.readline() returns one more line of the body
StreamFeed ==
    /\ Len(fed) < MaxLines
    /\ \E line \in StreamLines : ParseStreamLine(line)
    /\ UNCHANGED <<chan_vars, prov_vars, agent_vars, main_vars, fold_vars, arg_vars,
                   logical, togo>>

\* resp.readline() returns "data: [DONE]", or b"" at the end of the body
StreamEnd ==
    /\ \E line \in {DoneLine, EofLine} : ParseStreamLine(line)
    /\ UNCHANGED <<chan_vars, prov_vars, agent_vars, main_vars, fold_vars, arg_vars,
                   logical, togo>>

DecInit ==
    /\ dec_pc = "reading"
    /\ dec = DecoderStart
    /\ fed = <<>>
    /\ logical = NoCompletion
    /\ togo = NothingToGo

InitStream == ChanInit /\ ProvIdle /\ AgentIdle /\ MainIdle /\ ArgIdle /\ FoldIdle /\ DecInit
NextStream == StreamFeed \/ StreamEnd
SpecStream == InitStream /\ [][NextStream]_vars

(***************************************************************************)
(* SpecEquiv: the provider streams one completion, cut into chunks any way *)
(* it likes, and _parse_stream decodes the chunks as they come.            *)
(***************************************************************************)
LsCall == [id |-> "call_1", name |-> "ls", arguments |-> <<"{\"path\":", "\".\"}">>]
ReadCall == [id |-> "call_2", name |-> "read", arguments |-> <<>>]

Completions ==
    {Completion(<<"Hello", " world">>, <<LsCall>>, RawUsage(3, 2, 5)),
     Completion(<<>>, <<LsCall, ReadCall>>, RawUsage(7, Absent, 8)),
     Completion(<<"Hello", " world">>, <<>>, NoRawUsage),
     Completion(<<"Hi">>, <<ReadCall>>, NoRawUsage),
     Completion(<<>>, <<>>, RawUsage(3, 2, 5))}

\* a chunk with the next pieces of the text
EquivSendText ==
    /\ \E k \in 1..Len(togo.content) :
          /\ ParseStreamLine(DataLine(Chunk(NoRawUsage,
                 <<Choice(Join(SubSeq(togo.content, 1, k)), <<>>, Missing)>>)))
          /\ togo' = [togo EXCEPT !.content = SubSeq(@, k + 1, Len(@))]
    /\ UNCHANGED <<chan_vars, prov_vars, agent_vars, main_vars, fold_vars, arg_vars, logical>>

\* a chunk with a fragment of call i: its id or its name if they are still to
\* be sent (or again, when they have been), and the next pieces of its
\* argument string
EquivSendFragment ==
    /\ \E i \in DOMAIN togo.calls :
       \E with_id \in BOOLEAN, with_name \in BOOLEAN,
          k \in 0..Len(togo.calls[i].arguments) :
          LET c == togo.calls[i] IN
          /\ (c.id /\ with_id) \/ (c.name /\ with_name) \/ k > 0
          /\ ParseStreamLine(DataLine(Chunk(NoRawUsage,
                 <<Choice(Missing,
                     <<Fragment(i - 1,
                                IF with_id THEN logical.tool_calls[i].id ELSE Missing,
                                IF with_name THEN logical.tool_calls[i].name ELSE Missing,
                                IF k > 0 THEN Join(SubSeq(c.arguments, 1, k))
                                ELSE Missing)>>,
                     Missing)>>)))
          /\ togo' = [togo EXCEPT !["calls"][i] =
                         [id |-> c.id /\ ~with_id, name |-> c.name /\ ~with_name,
                          arguments |-> SubSeq(c.arguments, k + 1, Len(c.arguments))]]
    /\ UNCHANGED <<chan_vars, prov_vars, agent_vars, main_vars, fold_vars, arg_vars, logical>>

\* the chunk with the usage report
EquivSendUsage ==
    /\ togo.usage
    /\ ParseStreamLine(DataLine(Chunk(logical.usage, <<>>)))
    /\ togo' = [togo EXCEPT !.usage = FALSE]
    /\ UNCHANGED <<chan_vars, prov_vars, agent_vars, main_vars, fold_vars, arg_vars, logical>>

\* everything has been sent: "data: [DONE]", or the end of the body
EquivEnd ==
    /\ togo.content = <<>>
    /\ ~togo.usage
    /\ \A i \in DOMAIN togo.calls :
          ~togo.calls[i].id /\ ~togo.calls[i].name /\ togo.calls[i].arguments = <<>>
    /\ \E line \in {DoneLine, EofLine} : ParseStreamLine(line)
    /\ UNCHANGED <<chan_vars, prov_vars, agent_vars, main_vars, fold_vars, arg_vars, logical,
                   togo>>

EquivInit ==
    /\ dec_pc = "reading"
    /\ dec = DecoderStart
    /\ fed = <<>>
    /\ logical \in Completions
    /\ togo = AllToGo(logical)

InitEquiv == ChanInit /\ ProvIdle /\ AgentIdle /\ MainIdle /\ ArgIdle /\ FoldIdle /\ EquivInit
NextEquiv == EquivSendText \/ EquivSendFragment \/ EquivSendUsage \/ EquivEnd
SpecEquiv == InitEquiv /\ [][NextEquiv]_vars

(***************************************************************************)
(* SpecArgs: the dispatch of one tool call, whatever its arguments are:    *)
(* every text of up to MaxArgLen characters of JsonChars, some longer      *)
(* texts, and values that are not texts.                                   *)
(***************************************************************************)
JsonChars == {"{", "}", "[", "]", "\"", "a", ":", ",", "1", " "}

ShortTexts == UNION {[1..k -> JsonChars] : k \in 0..MaxArgLen}

LongTexts ==
    {<<"n", "o", "t", " ", "j", "s", "o", "n">>,
     <<"{", "\"", "a", "\"", ":", "1", "}">>,
     <<" ", "{", "\"", "a", "\"", " ", ":", " ", "1", "}", " ">>,
     <<"{", "\"", "a", "\"", ":", "1", "}", "x">>,
     <<"{", "\"", "a", "\"", ":", "1">>,
     <<"{", "\"", "a", "\"", ":", "{", "\"", "b", "\"", ":", "[", "1", "]", "}", "}">>,
     <<"{", "\"", "a", "\"", ":", "1", ",", "\"", "a", "\"", ":", "n", "u", "l", "l", "}">>,
     <<"n", "u", "l", "l">>,
     <<"-", "1", "2">>}

ArgumentValues ==
    {JString(t) : t \in ShortTexts \cup LongTexts}
       \cup {JNull, JNumber(1), JArray(<<>>), EmptyObject,
             JObject(<<"a">> :> JNumber(1))}

\* args_obj = normalize_arguments(arguments); client.call_tool(name, args_obj):
\* the request is written
ArgDispatch ==
    /\ arg_pc = "start"
    /\ arg_obj' = NormalizeArguments(arg_in)
    /\ ClientWrite("call_tool")
    /\ arg_pc' = "called"
    /\ UNCHANGED <<prov_vars, agent_vars, main_vars, fold_vars, dec_vars, arg_in>>

\* client.call_tool(name, args_obj) returns or raises
ArgReplied ==
    /\ arg_pc = "called"
    /\ \E line \in AgentLines(calls) : ClientRead(line)
    /\ arg_pc' = "replied"
    /\ UNCHANGED <<prov_vars, agent_vars, main_vars, fold_vars, dec_vars, arg_in, arg_obj>>

ArgInit ==
    /\ arg_in \in ArgumentValues
    /\ arg_pc = "start"
    /\ arg_obj = <<>>

InitArgs == ChanInit /\ ProvIdle /\ AgentIdle /\ MainIdle /\ DecIdle /\ ArgInit /\ FoldIdle
NextArgs == ArgDispatch \/ ArgReplied
SpecArgs == InitArgs /\ [][NextArgs]_vars

(***************************************************************************)
(* SpecReplay: response_from_events applied to a captured event sequence:  *)
(* any sequence of up to MaxEvents events of ReplayEvents.                 *)
(***************************************************************************)
Response1 == ProviderResponse("Hello", <<ToolCall("id_x", "ls", "{}")>>, "stop", Usage1)
Response2 == ProviderResponse("", <<>>, "", ZeroUsage)

ReplayEvents ==
    {ContentEvent("Hel"), ContentEvent("lo"),
     ToolEvent("tool_use_start", ToolCall("id_x", "ls", "")),
     ToolEvent("tool_use_start", ToolCall("", "read", "")),
     ToolEvent("tool_use_delta", ToolCall("id_x", "ls", ArgsA1)),
     ToolEvent("tool_use_delta", ToolCall("id_y", "", ArgsA1 \o ArgsA2)),
     ToolEvent("tool_use_stop", ToolCall("id_y", "read", "")),
     ToolEvent("tool_use_stop", ToolCall("id_x", Missing, Missing)),
     ToolEvent("tool_use_stop", NoCall),
     CompleteEvent(Response1), CompleteEvent(Response2),
     CompleteEvent(NoStreamResponse)}

\* one more event is captured
ReplayCapture ==
    /\ fold_pc = "capturing"
    /\ Len(captured) < MaxEvents
    /\ \E e \in ReplayEvents : captured' = Append(captured, e)
    /\ UNCHANGED <<fold_pc, folded>>
    /\ UNCHANGED <<chan_vars, prov_vars, agent_vars, main_vars, dec_vars, arg_vars>>

\* response = response_from_events(events)
ReplayFold ==
    /\ fold_pc = "capturing"
    /\ folded' = ResponseFromEvents(captured)
    /\ fold_pc' = "folded"
    /\ UNCHANGED captured
    /\ UNCHANGED <<chan_vars, prov_vars, agent_vars, main_vars, dec_vars, arg_vars>>

FoldInit ==
    /\ captured = <<>>
    /\ fold_pc = "capturing"
    /\ folded = NoStreamResponse

InitReplay == ChanInit /\ ProvIdle /\ AgentIdle /\ MainIdle /\ DecIdle /\ ArgIdle /\ FoldInit
NextReplay == ReplayCapture \/ ReplayFold
SpecReplay == InitReplay /\ [][NextReplay]_vars

(***************************************************************************)
(* SpecUsage: the two places where token usage is accumulated: a run of    *)
(* main (across the responses) or one decoding of a stream (across the     *)
(* chunks).                                                                *)
(***************************************************************************)
InitUsage == Init \/ InitStream
NextUsage == Next \/ NextStream
SpecUsage == InitUsage /\ [][NextUsage]_vars

(***************************************************************************)
(* The claims.                                                             *)
(***************************************************************************)

\* C1 (SpecChannel): request() returns a result only if the one reply line it
\* read carries the id of the request just sent; a reply with another id makes
\* the call fail as a protocol violation with no result; and no call reads a
\* second line to look for the matching reply.
C1_ResultOnlyForOwnId ==
    /\ last.out.kind = "return" =>
          last.line.kind = "reply" /\ last.line.id = last.req
    /\ (last.line.kind = "reply" /\ last.line.id # last.req) =>
          /\ last.out.kind = "raise"
          /\ last.out.err = "ProtocolViolation"
          /\ ~last.out.has_result
    /\ reads <= Len(wire)
    /\ chan_pc = "idle" => reads = Len(wire)

\* a stale reply (the id of the request before) was read, the call failed, and
\* the client is idle again having read exactly one line per request written
C1_Witness ==
    /\ Len(wire) = 2
    /\ chan_pc = "idle"
    /\ last.req = JStr("2")
    /\ last.line.id = JStr("1")
    /\ last.out.err = "ProtocolViolation"
    /\ reads = 2

\* C2 (SpecChannel): the ids written to the child are "1", "2", "3", ... in
\* this order (strictly increasing from 1, none reused), whatever way earlier
\* requests ended, and at most one written request waits for its reply line.
C2_FreshIdsOneOutstanding ==
    /\ \A k \in 1..Len(wire) : wire[k].id = [kind |-> "str", s |-> ToString(k)]
    /\ Len(wire) - reads \in {0, 1}
    /\ Len(wire) - reads = 1 <=> chan_pc = "reading"

\* a third request is on the wire after the second one failed
C2_Witness ==
    /\ Len(wire) = 3
    /\ chan_pc = "reading"
    /\ wire[3].id = JStr("3")
    /\ last.req = JStr("2")
    /\ last.out.kind = "raise"

C_Retryable(f) == f.kind = "url" \/ (f.kind = "http" /\ f.code \in {429, 500})

\* C3 (SpecProvider): in unary and in streaming mode an operation makes at
\* most 8 sends; an operation that ends raising a retryable failure (429, 500,
\* connection failure) has made exactly 8 sends, raises the failure of the 8th
\* and slept 7 times: not after the 8th.
C3_EightAttempts ==
    /\ sends <= 8
    /\ op_pc = "send" => sends < 8 /\ nsleeps = sends
    /\ (op_pc = "raised" /\ C_Retryable(op_error)) =>
          sends = 8 /\ op_error = failure /\ nsleeps = 7

C3_Witness ==
    /\ mode = "stream"
    /\ op_pc = "raised"
    /\ sends = 8
    /\ op_error.kind = "http"
    /\ op_error.code = 500
    /\ nsleeps = 7

\* C4 (SpecProvider): another send follows a failed one only if it failed with
\* 429, 500 or a connection failure; any other HTTP error status ends the
\* operation on that attempt, raising that error, with no sleep after it.
C4_RetryOnlyTransient ==
    /\ (op_pc = "send" /\ sends > 0) => C_Retryable(failure)
    /\ (failure.kind = "http" /\ failure.code \notin {429, 500}) =>
          /\ op_pc = "raised"
          /\ op_error = failure
          /\ nsleeps = sends - 1
          /\ delay.n < sends

\* a 503 on the third attempt ended the operation
C4_Witness ==
    /\ op_pc = "raised"
    /\ sends = 3
    /\ failure.kind = "http"
    /\ failure.code = 503
    /\ nsleeps = 2

\* the seconds a Retry-After value names, -1 if it is no number of seconds
C5_Seconds(h) ==
    CASE h = Header(<<"0">>) -> 0
      [] h = Header(<<"3">>) -> 3
      [] h = Header(<<"1", "2">>) -> 12
      [] OTHER -> -1

\* C5 (SpecProvider): after a 429 or 500 that is not the last attempt, the
\* delay is exactly 1000 ms times the Retry-After seconds when the response
\* names a number of seconds, at every attempt number, with no jitter; the
\* exponential backoff is used exactly when it names none.
C5_RetryAfterExact ==
    (op_pc = "send" /\ failure.kind = "http") =>
        LET sec == C5_Seconds(failure.retry_after) IN
        IF sec >= 0
        THEN delay = [n |-> sends, ms |-> sec * 1000, via |-> "retry_after"]
        ELSE /\ delay.n = sends
             /\ delay.via = "backoff"
             /\ delay.ms >= 2000 * 2^(sends - 1)

\* Retry-After: 3 on the fifth attempt: 3000 ms, where the backoff is 32000 ms
C5_Witness ==
    /\ op_pc = "send"
    /\ sends = 5
    /\ failure.code = 429
    /\ failure.retry_after = Header(<<"3">>)
    /\ delay.ms = 3000

\* C6 (SpecProvider): a backoff delay after failed attempt n lies between
\* 2000*2^(n-1) and 1.2 times that, for every jitter; and of two backoff
\* delays in a row the later is not the shorter.
C6_BackoffBounds ==
    /\ delay.via = "backoff" =>
          /\ 2000 * 2^(delay.n - 1) <= delay.ms
          /\ 5 * delay.ms <= 6 * 2000 * 2^(delay.n - 1)
    /\ (delay.via = "backoff" /\ prev_delay.via = "backoff") =>
          /\ delay.n = prev_delay.n + 1
          /\ prev_delay.ms <= delay.ms

\* the largest jitter after attempt 6, then the smallest after attempt 7
C6_Witness ==
    /\ prev_delay = [n |-> 6, ms |-> 76800, via |-> "backoff"]
    /\ delay = [n |-> 7, ms |-> 128000, via |-> "backoff"]

\* C7 as stated (SpecProvider): in a run of consecutive 429 responses it is
\* the 9th failure that is re-raised.
C7_NinthFailureRaises ==
    (op_pc = "raised" /\ only429) => sends = 9

\* C7 as amended (SpecProvider): in a run of consecutive 429 responses it is
\* the 8th failure that is re-raised; the first seven are each retried.
C7_EighthFailureRaises ==
    /\ (op_pc = "raised" /\ only429) =>
          sends = 8 /\ op_error.kind = "http" /\ op_error.code = 429
    /\ (only429 /\ sends \in 1..7) => op_pc = "send"

C7_Witness ==
    /\ op_pc = "raised"
    /\ only429
    /\ sends = 8
    /\ mode = "unary"

\* the tool calls of a sequence of responses, in order
RECURSIVE C_CallsOf(_)
C_CallsOf(ts) ==
    IF ts = <<>> THEN <<>>
    ELSE C_CallsOf(SubSeq(ts, 1, Len(ts) - 1)) \o ts[Len(ts)].tool_calls

C_IsToolMsg(m) == m.role = "tool"
C_ToolMsgs == SelectSeq(messages, C_IsToolMsg)

\* C8 (Spec): the run ends in Success, exit code 0, exactly when a response
\* with an empty tool-call list was received; when the first response is one,
\* the run is over after one provider call and no tool dispatch, and the
\* accumulated usage is that response's usage.
C8_SuccessIffNoToolCalls ==
    /\ outcome = "Success" <=> \E i \in 1..Len(turns) : turns[i].tool_calls = <<>>
    /\ exit_code = 0 <=> outcome = "Success"
    /\ outcome = "Success" => pc = "done"
    /\ (Len(turns) >= 1 /\ turns[1].tool_calls = <<>>) =>
          /\ outcome = "Success"
          /\ provider_calls = 1
          /\ dispatched = <<>>
          /\ Len(wire) = 1
          /\ total_usage = turns[1].usage

C8_Witness ==
    /\ outcome = "Success"
    /\ provider_calls = 1
    /\ turns = <<Resp("final answer", <<>>, Usage1)>>
    /\ total_usage = [input |-> 3, output |-> 2, total |-> 5]
    /\ printed = <<"final answer">>

\* C9 (Spec): no run makes more provider calls than the budget N; with N >= 1,
\* a run that received N responses, each asking for a tool, ends in
\* BudgetExceeded, and a run that ended in BudgetExceeded made exactly N
\* provider calls, dispatched every tool call of the N responses in order,
\* printed no answer and did not return Success's exit code.
C9_BudgetExceeded ==
    /\ provider_calls <= max_steps
    /\ (max_steps >= 1 /\ pc = "done" /\ Len(turns) = max_steps
            /\ \A i \in 1..Len(turns) : turns[i].tool_calls # <<>>) =>
          outcome = "BudgetExceeded"
    /\ (max_steps >= 1 /\ outcome = "BudgetExceeded") =>
          /\ pc = "done"
          /\ provider_calls = max_steps
          /\ Len(turns) = max_steps
          /\ \A i \in 1..Len(turns) : turns[i].tool_calls # <<>>
          /\ dispatched = C_CallsOf(turns)
          /\ Len(tool_results) = Len(dispatched)
          /\ printed = <<>>
          /\ exit_code = 1

\* budget 1, one tool call asked for and answered: one round trip, then
\* BudgetExceeded
C9_Witness ==
    /\ max_steps = 1
    /\ outcome = "BudgetExceeded"
    /\ dispatched = <<CallA>>
    /\ Len(wire) = 2
    /\ reads = 2
    /\ tool_results[1].out.kind = "return"
    /\ printed = <<>>

\* C10 (Spec): a call_tool that raises does not end the run: the tool-role
\* message appended for it carries the call's id and the content
\* "tool call failed: " followed by the error text; the later calls of the
\* step are dispatched all the same, and the loop goes on to the next step
\* unless the budget is used up.
C10_ToolFailureFolded ==
    /\ Len(C_ToolMsgs) = Len(tool_results)
    /\ \A i \in 1..Len(tool_results) :
          tool_results[i].out.kind = "raise" =>
             /\ C_ToolMsgs[i].tool_call_id = tool_results[i].call.id
             /\ C_ToolMsgs[i].content = "tool call failed: " \o tool_results[i].out.text
    /\ outcome = "Raised" => turns = <<>>
    /\ outcome = "Aborted" => provider_error # "none"
    /\ pc = "dispatch" =>
          Len(tool_results) =
             Len(C_CallsOf(turns)) - Len(response.tool_calls) + call_i - 1
    /\ pc \in {"provider", "provider_wait"} =>
          /\ Len(tool_results) = Len(C_CallsOf(turns))
          /\ step_index = Len(turns) + 1
    /\ (pc = "done" /\ turns # <<>>) =>
          /\ Len(tool_results) = Len(C_CallsOf(turns))
          /\ outcome = "BudgetExceeded" => Len(turns) = max_steps

\* the first call of a two-call step failed on a closed stream, the second
\* was dispatched and answered, and the next provider call was made
C10_Witness ==
    /\ Len(turns) = 1
    /\ turns[1].tool_calls = <<CallB, CallA>>
    /\ Len(tool_results) = 2
    /\ tool_results[1].out.err = "ChannelClosed"
    /\ C_ToolMsgs[1].content = "tool call failed: toolserver exited"
    /\ C_ToolMsgs[1].tool_call_id = "call_b"
    /\ tool_results[2].out.kind = "return"
    /\ pc = "provider_wait"
    /\ provider_calls = 2

(***************************************************************************)
(* Claims on the conversation loop, continued.                             *)
(***************************************************************************)
C_FatalChannelKinds == {"ChannelClosed", "ProtocolViolation"}

\* C11 (Spec), as claimed: a call_tool that fails as ChannelClosed or
\* ProtocolViolation ends the run at once, as aborted: it is the last
\* dispatch, no tool-role message is appended for it and no provider call
\* follows; only a RemoteToolError is folded into a tool-role message.
C11_FatalChannelFailureAborts ==
    \A i \in 1..Len(tool_results) :
       (tool_results[i].out.kind = "raise"
            /\ tool_results[i].out.err \in C_FatalChannelKinds) =>
          /\ pc = "done"
          /\ outcome \in {"Aborted", "Raised"}
          /\ i = Len(tool_results)
          /\ Len(dispatched) = i
          /\ Len(C_ToolMsgs) = i - 1

\* where the assistant message of step i stands in the history
C_StepStart(i) == 2 + i + Len(C_CallsOf(SubSeq(turns, 1, i - 1)))

\* how many tool calls of step i have been answered so far
C_Answered(i) ==
    IF i = Len(turns) /\ pc = "dispatch" THEN call_i - 1
    ELSE Len(turns[i].tool_calls)

\* C12 (Spec): the assistant message of a step with k tool calls is followed
\* directly by one tool-role message per call, in the order of the calls, the
\* i-th carrying the i-th call's id, whether the call succeeded or failed;
\* the history holds exactly k of them when the next provider call is made.
C12_OneToolMessagePerCall ==
    /\ \A i \in 1..Len(turns) :
          LET p == C_StepStart(i) IN
          /\ Len(messages) >= p + C_Answered(i)
          /\ messages[p] = BuildAssistantMessage(turns[i])
          /\ \A c \in 1..C_Answered(i) :
                /\ messages[p + c].role = "tool"
                /\ messages[p + c].tool_call_id = turns[i].tool_calls[c].id
                /\ messages[p + c].name = turns[i].tool_calls[c].name
          /\ i < Len(turns) =>
                messages[p + Len(turns[i].tool_calls) + 1].role = "assistant"
    /\ (turns # <<>> /\ pc # "dispatch") =>
          Len(messages) = 2 + Len(turns) + Len(C_CallsOf(turns))
    /\ pc = "dispatch" =>
          Len(messages) = C_StepStart(Len(turns)) + call_i - 1
    /\ Len(C_ToolMsgs) = Len(tool_results)

\* a step with two calls, one failed and one answered, then a step with one
\* call: the history is system, user, assistant, tool, tool, assistant, tool
C12_Witness ==
    /\ Len(turns) = 2
    /\ turns[1].tool_calls = <<CallB, CallA>>
    /\ turns[2].tool_calls = <<CallA>>
    /\ tool_results[1].out.kind = "raise"
    /\ tool_results[2].out.kind = "return"
    /\ Len(messages) = 7
    /\ messages[4].tool_call_id = "call_b"
    /\ messages[5].tool_call_id = "call_a"
    /\ messages[6].role = "assistant"
    /\ messages[7].tool_call_id = "call_a"
    /\ outcome = "BudgetExceeded"

\* C13 (Spec): when main is left, the child process has been killed, whichever
\* way main is left: run_agent returned 0 (Success) or 1 (BudgetExceeded, or
\* the provider call raised), the api key was missing or the provider unknown
\* (return 2), or an exception left run_agent and main (list_tools failing).
\* Nothing leaves main but through "finally".
C13_ChildKilledOnEveryExit ==
    /\ main_pc = "exited" => ~child_alive
    /\ main_pc = "exited" =>
          \/ pc = "list_tools" /\ main_ret = 2
          \/ outcome = "Success" /\ main_ret = 0
          \/ outcome \in {"BudgetExceeded", "Aborted"} /\ main_ret = 1
          \/ outcome = "Raised" /\ IsValueError(escaped) /\ main_ret = 2
          \/ outcome = "Raised" /\ ~IsValueError(escaped) /\ main_ret = -1
    /\ (pc = "done" /\ main_pc # "exited") => main_pc \in {"run_agent", "finally"}
    /\ main_ret # -1 => main_pc \in {"finally", "exited"}

\* list_tools was answered with a reply of another id while the child was
\* running: the RuntimeError leaves run_agent and main, and the child is dead
C13_Witness ==
    /\ main_pc = "exited"
    /\ outcome = "Raised"
    /\ escaped = "RuntimeError"
    /\ last.out.err = "ProtocolViolation"
    /\ main_ret = -1
    /\ ~child_alive

(***************************************************************************)
(* Claims on the stream decoder.                                           *)
(***************************************************************************)
\* the tool-call fragments of the lines read so far, in the order read
RECURSIVE C_ChoiceFrags(_)
C_ChoiceFrags(choices) ==
    IF choices = <<>> THEN <<>>
    ELSE Head(choices).tool_calls \o C_ChoiceFrags(Tail(choices))

RECURSIVE C_LineFrags(_)
C_LineFrags(lines) ==
    IF lines = <<>> THEN <<>>
    ELSE (IF Head(lines).kind = "data"
          THEN C_ChoiceFrags(Head(lines).chunk.choices)
          ELSE <<>>) \o C_LineFrags(Tail(lines))

\* the slot a fragment names: its index, 0 without one
C_Slot(f) == IF f.index = -1 THEN 0 ELSE f.index

C_Given(v) == v # "<missing>" /\ v # ""

\* the fragments read so far for slot s
C_SlotFrags(s) == SelectSeq(C_LineFrags(fed), LAMBDA f : C_Slot(f) = s)

C_Slots == {C_Slot(C_LineFrags(fed)[i]) : i \in 1..Len(C_LineFrags(fed))}

\* the argument pieces of a sequence of fragments, joined
RECURSIVE C_JoinArgs(_)
C_JoinArgs(fs) ==
    IF fs = <<>> THEN ""
    ELSE (IF C_Given(Head(fs).arguments) THEN Head(fs).arguments ELSE "")
         \o C_JoinArgs(Tail(fs))

\* the first id among a sequence of fragments, "" if there is none
RECURSIVE C_FirstId(_)
C_FirstId(fs) ==
    IF fs = <<>> THEN ""
    ELSE IF C_Given(Head(fs).id) THEN Head(fs).id
    ELSE C_FirstId(Tail(fs))

C_DataLines == SelectSeq(fed, LAMBDA l : l.kind = "data")

C_Frag(f) == DataLine(Chunk(NoRawUsage, <<Choice(Missing, <<f>>, Missing)>>))

C_EventsOfType(t) == SelectSeq(dec.events, LAMBDA e : e.type = t)

\* C15 (SpecStream): for slot 0, a fragment with only the name "ls", then one
\* with only the id "id_x", then the argument fragments a1 and a2, give two
\* tool_use_start events (after the name, after the id) and two
\* tool_use_delta events carrying a1 and then a1 a2, and nothing else; and
\* at any point each slot holds the first id, and the joined argument pieces,
\* of the fragments that named its index, whatever their ids.
C15_SlotKeying ==
    /\ (dec_pc = "reading"
          /\ C_DataLines = <<C_Frag(Fragment(0, Missing, "ls", Missing)),
                             C_Frag(Fragment(0, "id_x", Missing, Missing)),
                             C_Frag(Fragment(Absent, Missing, Missing, ArgsA1)),
                             C_Frag(Fragment(0, Missing, Missing, ArgsA2))>>) =>
          dec.events =
             <<ToolEvent("tool_use_start", ToolCall("", "ls", "")),
               ToolEvent("tool_use_start", ToolCall("id_x", "ls", "")),
               ToolEvent("tool_use_delta", ToolCall("id_x", "ls", "{\"p\":")),
               ToolEvent("tool_use_delta", ToolCall("id_x", "ls", "{\"p\":1}"))>>
    /\ dec_pc = "reading" =>
          /\ DOMAIN dec.slots = C_Slots
          /\ \A s \in C_Slots :
                /\ dec.slots[s].arguments = C_JoinArgs(C_SlotFrags(s))
                /\ dec.slots[s].id = C_FirstId(C_SlotFrags(s))
          /\ Len(C_EventsOfType("tool_use_delta")) =
                Len(SelectSeq(C_LineFrags(fed), LAMBDA f : C_Given(f.arguments)))

\* the four fragments have been read
C15_Witness ==
    /\ dec_pc = "reading"
    /\ Len(fed) = 4
    /\ Len(C_EventsOfType("tool_use_start")) = 2
    /\ Len(C_EventsOfType("tool_use_delta")) = 2
    /\ dec.events[2].tool_call = ToolCall("id_x", "ls", "")
    /\ dec.events[4].tool_call.arguments = "{\"p\":1}"
    /\ DOMAIN dec.slots = {0}

\* the slot that stands at place i when the slots are taken in ascending order
C_SlotAt(i) == CHOOSE s \in C_Slots : Cardinality({t \in C_Slots : t < s}) = i - 1

\* C16 (SpecStream): when the stream has ended, the response of the complete
\* event lists one tool call per slot that a fragment named, in ascending
\* order of the slots whatever the order they were first named in; each has a
\* non-empty id: the first id a fragment gave the slot, "call_<index>" if no
\* fragment gave one.
C16_FinalIds ==
    dec_pc = "done" =>
       LET resp == dec.events[Len(dec.events)].response IN
       /\ dec.events[Len(dec.events)].type = "complete"
       /\ Len(resp.tool_calls) = Cardinality(C_Slots)
       /\ \A i \in 1..Len(resp.tool_calls) :
             LET s == C_SlotAt(i)
                 first == C_FirstId(C_SlotFrags(s))
             IN /\ resp.tool_calls[i].id # ""
                /\ resp.tool_calls[i].id # Missing
                /\ resp.tool_calls[i].id =
                      IF first = "" THEN "call_" \o ToString(s) ELSE first
                /\ resp.tool_calls[i].arguments = C_JoinArgs(C_SlotFrags(s))

\* slot 1 was named first and never given an id, slot 0 was given id_x and
\* then id_z
C16_Witness ==
    /\ dec_pc = "done"
    /\ Len(C_LineFrags(fed)) = 3
    /\ C_Slot(C_LineFrags(fed)[1]) = 1
    /\ C_LineFrags(fed)[2].id = "id_x"
    /\ C_LineFrags(fed)[3].id = "id_z"
    /\ dec.events[Len(dec.events)].response.tool_calls =
          <<ToolCall("id_x", "ls", ""), ToolCall("call_1", "read", "")>>

\* C14 (SpecEquiv): whatever way the text and the argument strings of a
\* completion are cut into chunks, and whatever the order of the chunks of
\* different calls, of the text and of the usage report, the response folded
\* from the decoder's events has the content, the tool calls {id, name,
\* arguments} and the usage of the response request() parses from the unary
\* body of the same completion; both give the same assistant message.
C14_StreamUnaryEquivalence ==
    dec_pc = "done" =>
       LET streamed == ResponseFromEvents(dec.events)
           unary == ParseUnary(EncodeUnary(logical))
       IN /\ streamed.content = unary.content
          /\ streamed.tool_calls = unary.tool_calls
          /\ streamed.usage = unary.usage
          /\ BuildAssistantMessage(streamed) = BuildAssistantMessage(unary)

\* "Hello world" and the call ls {"path":"."}, each sent in two chunks, the
\* call's name before its id, and a call without arguments
C14_Witness ==
    /\ dec_pc = "done"
    /\ logical = Completion(<<"Hello", " world">>, <<LsCall>>, RawUsage(3, 2, 5))
    /\ Len(C_EventsOfType("content_delta")) = 2
    /\ Len(C_EventsOfType("tool_use_delta")) = 2
    /\ C_LineFrags(fed)[1].id = Missing
    /\ ResponseFromEvents(dec.events) =
          ProviderResponse("Hello world",
             <<ToolCall("call_1", "ls", "{\"path\":\".\"}")>>,
             "", [input |-> 3, output |-> 2, total |-> 5])

(***************************************************************************)
(* Claims on the decoding of tool-call arguments.                          *)
(***************************************************************************)
C_Text(t) == [kind |-> "string", text |-> t]

\* the first and the last character of a text that are not spaces
C_Trimmed(t) == SelectSeq(t, LAMBDA c : c # " ")

\* C17 (SpecArgs): whatever the arguments of a tool call are, the call is
\* dispatched, with an object: the arguments themselves if they already are
\* one, the object decoded from a text that is a JSON object ('{"a":1}' gives
\* the object with the one member a = 1), the empty object for "", for
\* "not json", for "[]", for any other text and for any other value.
C17_ArgumentsDecoded ==
    arg_pc \in {"called", "replied"} =>
       /\ arg_obj.kind = "object"
       /\ Len(wire) = 1 /\ wire[1].method = "call_tool"
       /\ arg_in = C_Text(<<>>) => arg_obj.members = <<>>
       /\ arg_in = C_Text(<<"n", "o", "t", " ", "j", "s", "o", "n">>) =>
             arg_obj.members = <<>>
       /\ arg_in = C_Text(<<"[", "]">>) => arg_obj.members = <<>>
       /\ arg_in = C_Text(<<"{", "\"", "a", "\"", ":", "1", "}">>) =>
             /\ DOMAIN arg_obj.members = {<<"a">>}
             /\ arg_obj.members[<<"a">>] = [kind |-> "number", num |-> 1]
       /\ arg_in = C_Text(<<"{", "\"", "a", "\"", ":", "1", "}", "x">>) =>
             arg_obj.members = <<>>
       /\ arg_in.kind = "object" => arg_obj = arg_in
       /\ arg_in.kind \notin {"object", "string"} => arg_obj.members = <<>>
       /\ (arg_in.kind = "string" /\ arg_obj.members # <<>>) =>
             LET t == C_Trimmed(arg_in.text) IN
             /\ Len(t) >= 7
             /\ t[1] = "{" /\ t[Len(t)] = "}"
       /\ (arg_in.kind = "string" /\ C_Trimmed(arg_in.text) = <<"{", "}">>
              /\ Len(arg_in.text) <= 3) => arg_obj.members = <<>>

\* the text "not json" was decoded to the empty object and the call was
\* dispatched and answered
C17_Witness ==
    /\ arg_pc = "replied"
    /\ arg_in = C_Text(<<"n", "o", "t", " ", "j", "s", "o", "n">>)
    /\ arg_obj = [kind |-> "object", members |-> <<>>]
    /\ Len(wire) = 1
    /\ last.out.kind = "return"

(***************************************************************************)
(* Claims on the conversation loop as a state machine.                     *)
(***************************************************************************)
C_Terminal == {"Success", "BudgetExceeded", "Aborted"}

\* the loop has been entered: the tools are listed and the history is set up
C_Running == messages # <<>> /\ outcome = "Running"

\* C18 (SpecFair): a run that has entered the loop ends, in exactly one of
\* Success, BudgetExceeded and Aborted, after at most max_steps provider
\* calls; a provider call that raises gives Aborted in that very step, with
\* nothing appended and nothing dispatched; and once the run has ended no
\* provider call is made, no tool dispatched and nothing appended to the
\* history, and the outcome stays.
C18_ReachesOneTerminalState ==
    /\ [](messages # <<>> =>
            /\ outcome \in C_Terminal \cup {"Running"}
            /\ pc = "done" <=> outcome \in C_Terminal
            /\ provider_calls <= max_steps
            /\ step_index <= max_steps
            /\ Len(turns) <= provider_calls)
    /\ [][provider_error' # provider_error =>
             /\ pc = "provider_wait"
             /\ pc' = "done"
             /\ outcome' = "Aborted"
             /\ UNCHANGED <<messages, provider_calls, dispatched, wire, turns>>]_vars
    /\ [][pc = "done" =>
             UNCHANGED <<pc, outcome, exit_code, messages, provider_calls,
                         dispatched, wire, turns, tool_results, total_usage>>]_vars
    /\ C_Running ~> (pc = "done" /\ outcome \in C_Terminal)

\* a run of two steps that ended when the second provider call raised
C18_Witness ==
    /\ pc = "done"
    /\ outcome = "Aborted"
    /\ provider_error = "HTTPError"
    /\ provider_calls = 2
    /\ max_steps = 2
    /\ Len(turns) = 1
    /\ Len(dispatched) = 1
    /\ main_pc = "exited"

\* provider calls made and not yet ended, tool dispatches made and not yet
\* ended
C_ProviderOutstanding ==
    provider_calls - Len(turns) - (IF provider_error # "none" THEN 1 ELSE 0)
C_DispatchOutstanding == Len(dispatched) - Len(tool_results)

\* C19 (Spec): at any time at most one provider call is outstanding and at
\* most one tool dispatch, never both; the calls dispatched so far are, in
\* order, the first tool calls of the responses received, each once; every
\* tool call of a step has been dispatched, once, when the next provider call
\* is made or the run ends, whether its dispatch failed or not; a dispatch is
\* one request on the tool channel.
C19_SequentialExactlyOnce ==
    /\ C_ProviderOutstanding \in {0, 1}
    /\ C_DispatchOutstanding \in {0, 1}
    /\ C_ProviderOutstanding + C_DispatchOutstanding <= 1
    /\ C_ProviderOutstanding = 1 <=> pc = "provider_wait"
    /\ C_DispatchOutstanding = 1 <=> (pc = "dispatch" /\ chan_pc = "reading")
    /\ Len(dispatched) <= Len(C_CallsOf(turns))
    /\ dispatched = SubSeq(C_CallsOf(turns), 1, Len(dispatched))
    /\ \A i \in 1..Len(tool_results) : tool_results[i].call = dispatched[i]
    /\ (turns # <<>> /\ pc # "dispatch") => dispatched = C_CallsOf(turns)
    /\ messages # <<>> => calls = 1 + Len(dispatched)

\* the first call of a step failed; the second is outstanding: three requests
\* in all, one for list_tools and one for each call
C19_Witness ==
    /\ pc = "dispatch"
    /\ chan_pc = "reading"
    /\ response.tool_calls = <<CallB, CallA>>
    /\ dispatched = <<CallB, CallA>>
    /\ Len(tool_results) = 1
    /\ tool_results[1].out.kind = "raise"
    /\ calls = 3
    /\ provider_calls = 1

\* the component-wise sum of the usage of a sequence of responses
RECURSIVE C_SumUsage(_)
C_SumUsage(ts) ==
    IF ts = <<>> THEN [input |-> 0, output |-> 0, total |-> 0]
    ELSE LET rest == C_SumUsage(Tail(ts)) IN
         [input |-> Head(ts).usage.input + rest.input,
          output |-> Head(ts).usage.output + rest.output,
          total |-> Head(ts).usage.total + rest.total]

C_Counter(x) == IF x = -1 THEN 0 ELSE x

\* the component-wise sum of the usage members of a sequence of lines
RECURSIVE C_SumChunks(_)
C_SumChunks(lines) ==
    IF lines = <<>> THEN [input |-> 0, output |-> 0, total |-> 0]
    ELSE LET rest == C_SumChunks(Tail(lines))
             u == Head(lines).chunk.usage
         IN IF Head(lines).kind = "data" /\ u.present
            THEN [input |-> C_Counter(u.prompt_tokens) + rest.input,
                  output |-> C_Counter(u.completion_tokens) + rest.output,
                  total |-> C_Counter(u.total_tokens) + rest.total]
            ELSE rest

C20_StreamWitness ==
    /\ dec_pc = "done"
    /\ Len(SelectSeq(fed, LAMBDA l : l.kind = "data" /\ l.chunk.usage.present)) = 2
    /\ dec.usage = [input |-> 3, output |-> 6, total |-> 5]

\* s is an initial part of t
C_Prefix(s, t) == Len(s) <= Len(t) /\ s = SubSeq(t, 1, Len(s))

C_Roles(msgs) == [i \in 1..Len(msgs) |-> msgs[i].role]

\* the messages with the role r stand at these places
C_Places(msgs, r) == {i \in 1..Len(msgs) : msgs[i].role = r}

\* C21 (Spec): the history is created as <<system message, user message>> and
\* those two stay its first two messages, the only ones with their roles; a
\* step of the program leaves the history as it is or appends one message to
\* it, so every earlier history is an initial part of every later one; the
\* history holds one assistant message per response received, the one built
\* from it, and every tool-role message comes after the assistant message of
\* its step and before the next one; the n-th provider call is given the whole
\* history as it stands when the call is made: everything before the n-th
\* assistant message.
C21_HistoryAppendOnly ==
    /\ [](messages # <<>> =>
             /\ C_Prefix(<<SystemMsg, UserMsg>>, messages)
             /\ C_Places(messages, "system") = {1}
             /\ C_Places(messages, "user") = {2}
             /\ C_Places(messages, "assistant") =
                   {C_StepStart(i) : i \in 1..Len(turns)}
             /\ \A i \in 1..Len(turns) :
                   messages[C_StepStart(i)] = BuildAssistantMessage(turns[i])
             /\ \A p \in C_Places(messages, "tool") :
                   \E i \in 1..Len(turns) :
                      /\ C_StepStart(i) < p
                      /\ p <= C_StepStart(i) + Len(turns[i].tool_calls)
                      /\ messages[p].tool_call_id =
                            turns[i].tool_calls[p - C_StepStart(i)].id)
    /\ [](/\ Len(sent) = provider_calls
          /\ \A n \in 1..Len(sent) :
                sent[n] = IF n <= Len(turns)
                          THEN SubSeq(messages, 1, C_StepStart(n) - 1)
                          ELSE messages)
    /\ [][\/ messages' = messages
          \/ messages = <<>> /\ messages' = <<SystemMsg, UserMsg>>
          \/ /\ messages # <<>>
             /\ Len(messages') = Len(messages) + 1
             /\ C_Prefix(messages, messages')]_vars
    /\ [][sent' # sent =>
             /\ sent' = Append(sent, messages)
             /\ messages' = messages]_vars

\* the second provider call is outstanding: it was given the five messages of
\* the history (system, user, assistant, tool, tool), the first call the two
\* the history started with
C21_Witness ==
    /\ pc = "provider_wait"
    /\ provider_calls = 2
    /\ C_Roles(messages) = <<"system", "user", "assistant", "tool", "tool">>
    /\ sent = <<<<SystemMsg, UserMsg>>, messages>>
    /\ tool_results[1].out.kind = "raise"

\* the last send was answered with a body that cannot be parsed
C_MalformedBody == failure.kind = "ok" /\ failure.body = "malformed"

\* C22 (SpecProvider): in unary and in streaming mode alike, a reply whose
\* body (or one of whose chunks) cannot be parsed ends the provider operation
\* with an exception on that attempt.
C22_MalformedBodyIsFatal ==
    C_MalformedBody => op_pc = "raised" /\ op_error = DecodeError

\* the unary half: json.loads of line 260 raises out of the retry loop
C_UnaryMalformedIsFatal ==
    (mode = "unary" /\ C_MalformedBody) =>
        op_pc = "raised" /\ op_error = DecodeError

\* the streaming half (SpecStream): a chunk json.loads rejects is passed over,
\* the decoder reads on with its locals as they were
C_BadChunkPassedOver ==
    [][(dec_pc = "reading" /\ fed' # fed /\ fed'[Len(fed')] = BadJsonLine) =>
          dec_pc' = "reading" /\ dec' = dec]_vars

\* the greatest member of a non-empty set of numbers
C_Max(S) == CHOOSE x \in S : \A y \in S : y <= x

\* the places of the complete events that carry a response
C_Completes ==
    {i \in 1..Len(captured) :
        captured[i].type = "complete" /\ captured[i].response # NoStreamResponse}

\* the texts of the content_delta events, joined in order
RECURSIVE C_Texts(_)
C_Texts(events) ==
    IF events = <<>> THEN ""
    ELSE (IF Head(events).type = "content_delta" THEN Head(events).content ELSE "")
         \o C_Texts(Tail(events))

\* the places of the tool-call events that carry a call with an id
C_Keyed ==
    {i \in 1..Len(captured) :
        /\ captured[i].type \in {"tool_use_start", "tool_use_delta", "tool_use_stop"}
        /\ captured[i].tool_call.id \notin {Missing, ""}}

\* the places where an id is seen for the first time, in ascending order
RECURSIVE C_Ascending(_)
C_Ascending(S) ==
    IF S = {} THEN <<>>
    ELSE LET m == C_Max(S) IN Append(C_Ascending(S \ {m}), m)
C_FirstSeen ==
    C_Ascending({i \in C_Keyed :
                    \A j \in C_Keyed : j < i => captured[j].tool_call.id # captured[i].tool_call.id})

\* the last non-empty name and the last non-empty argument string given for
\* an id, "" if there is none
C_LastName(id) ==
    LET S == {i \in C_Keyed : /\ captured[i].tool_call.id = id
                              /\ captured[i].tool_call.name \notin {Missing, ""}}
    IN IF S = {} THEN "" ELSE captured[C_Max(S)].tool_call.name
C_LastArguments(id) ==
    LET S == {i \in C_Keyed : /\ captured[i].tool_call.id = id
                              /\ captured[i].tool_call.arguments \notin {Missing, ""}}
    IN IF S = {} THEN "" ELSE captured[C_Max(S)].tool_call.arguments

\* C23 (SpecReplay): when the event sequence holds a complete event carrying
\* a response, response_from_events returns that response as it is (the last
\* one's if there are several), whatever events come before or after it;
\* otherwise the content of the result is the texts of the content_delta
\* events joined in order, and its tool calls are one per id carried by the
\* tool-call events, in the order the ids first appear, each with the last
\* non-empty name and the last non-empty arguments given for its id.
C23_ReplayFolding ==
    fold_pc = "folded" =>
        IF C_Completes # {}
        THEN folded = captured[C_Max(C_Completes)].response
        ELSE /\ folded.content = C_Texts(captured)
             /\ Len(folded.tool_calls) = Len(C_FirstSeen)
             /\ \A k \in 1..Len(C_FirstSeen) :
                   LET id == captured[C_FirstSeen[k]].tool_call.id IN
                   /\ folded.tool_calls[k].id = id
                   /\ folded.tool_calls[k].name = C_LastName(id)
                   /\ folded.tool_calls[k].arguments = C_LastArguments(id)

\* a complete event between a content and a tool-call event: its response is
\* the result
C23_Witness ==
    /\ fold_pc = "folded"
    /\ captured = <<ContentEvent("lo"), CompleteEvent(Response1),
                    ToolEvent("tool_use_stop", ToolCall("id_y", "read", ""))>>
    /\ folded = Response1

\* no complete event: two ids, the second one's name given after its
\* arguments, an event without id in between
C23_MergeWitness ==
    /\ fold_pc = "folded"
    /\ captured = <<ToolEvent("tool_use_delta", ToolCall("id_y", "", ArgsA1 \o ArgsA2)),
                    ToolEvent("tool_use_start", ToolCall("", "read", "")),
                    ToolEvent("tool_use_stop", ToolCall("id_y", "read", ""))>>
    /\ folded.tool_calls = <<ToolCall("id_y", "read", ArgsA1 \o ArgsA2)>>
    /\ folded.content = ""

C_Types(events) == [i \in 1..Len(events) |-> events[i].type]

C_BodyTypes == {"content_delta", "tool_use_start", "tool_use_delta"}

\* C24 (SpecStream): while the decoder reads, its events are content_delta,
\* tool_use_start and tool_use_delta events only, and a blank line or a line
\* without "data:" adds none; the decoder stops at the first "[DONE]" (or at
\* the end of the body) and nothing is read or appended after it; the list it
\* returns is those events, then one tool_use_stop per slot in ascending order
\* of the slots, then one complete event, the only one, in last place; the
\* content of its response is the texts of the content_delta events joined in
\* order, and its tool calls are the calls of the tool_use_stop events, in
\* their order.
C24_EventListShape ==
    /\ [](dec_pc = "reading" =>
             /\ \A i \in 1..Len(dec.events) : dec.events[i].type \in C_BodyTypes
             /\ \A i \in 1..Len(fed) : fed[i].kind \notin {"eof", "done"})
    /\ [](dec_pc = "done" =>
             LET ev == dec.events
                 n == Len(ev)
                 k == Cardinality(C_Slots)
                 resp == ev[n].response
             IN /\ n >= k + 1
                /\ fed[Len(fed)].kind \in {"eof", "done"}
                /\ \A i \in 1..(Len(fed) - 1) : fed[i].kind \notin {"eof", "done"}
                /\ \A i \in 1..(n - k - 1) : ev[i].type \in C_BodyTypes
                /\ \A i \in 1..k :
                      /\ ev[n - k - 1 + i].type = "tool_use_stop"
                      /\ ev[n - k - 1 + i].tool_call.arguments =
                            C_JoinArgs(C_SlotFrags(C_SlotAt(i)))
                      /\ C_FirstId(C_SlotFrags(C_SlotAt(i))) \in
                            {"", ev[n - k - 1 + i].tool_call.id}
                /\ ev[n].type = "complete"
                /\ resp.content = C_Texts(SubSeq(ev, 1, n - 1))
                /\ resp.tool_calls = [i \in 1..k |-> ev[n - k - 1 + i].tool_call])
    /\ [][(fed' # fed /\ fed'[Len(fed')].kind \in {"blank", "other"}) =>
             dec' = dec /\ dec_pc' = dec_pc]_vars
    /\ [][dec_pc = "done" => UNCHANGED <<dec, fed, dec_pc>>]_vars

\* a text, slot 1 with id, name and arguments, then slot 0 with a name only,
\* then "[DONE]": the stop event of slot 0 comes before that of slot 1
C24_Witness ==
    /\ dec_pc = "done"
    /\ fed[Len(fed)] = DoneLine
    /\ C_Types(dec.events) =
          <<"content_delta", "tool_use_start", "tool_use_start", "tool_use_delta",
            "tool_use_start", "tool_use_stop", "tool_use_stop", "complete">>
    /\ dec.events[6].tool_call = ToolCall("call_0", "ls", "")
    /\ dec.events[7].tool_call = ToolCall("id_x", "read", "{}")
    /\ dec.events[8].response.content = "Hel"

====
